---------------------------- MODULE Spec2Model ----------------------------
(***************************************************************************)
(* A model of the multi-sampler's audio core: the RIFF/WAVE header parser  *)
(* (readWavInfo), the key-range mapper (buildAcDryRegions), the chunk      *)
(* builders and the kit encoder (exportAcDryKitWavPcm16).                  *)
(*                                                                         *)
(* Byte buffers are sequences of integers 0..255.  The source indexes them *)
(* from 0, the sequences here from 1: byte `offset` of the source is       *)
(* element offset + 1.  Floating-point quantities (sample values,          *)
(* durations) are exact fractions <<numerator, denominator>>.              *)
(***************************************************************************)
EXTENDS Integers, Sequences, FiniteSets, TLC

VARIABLES
    \* ---- readWavInfo (one call) ----
    made,           \* how the input buffer was put together (header, chunks, tail)
    view,           \* the DataView over the file's bytes
    offset,         \* the scan cursor
    channels,
    sampleRate,
    bitsPerSample,
    dataBytes,
    ppc,            \* position of the call: "start", "scan", "check", "done", "failed"
    info,           \* the WavInfo returned, or the error thrown
    \* ---- buildAcDryRegions / exportAcDryKitWavPcm16 (one call) ----
    items,          \* the caller's items, <<[note, file], ...>>
    options,        \* [sampleRate, channels]
    itemsSorted,
    idx,            \* index of the next item of itemsSorted to render
    rendered,
    notes,
    frameLengths,
    totalFrames,
    regions,
    built,          \* the four chunks as built: [fmt, list, smpl, data]
    result,         \* what the export returned: [wavBytes, durationSec], or the error
    pc,             \* position of the call
    \* ---- clampInt16 / toTargetChannels / resample (one call of one of them) ----
    sample,         \* the argument of clampInt16
    quantized,      \* what clampInt16 returned
    source,         \* the AudioBuffer handed to toTargetChannels or resample
    targetChannels,
    targetRate,
    output,         \* the AudioBuffer returned
    apc,            \* position of the call: "start", "quantized", "remixed", "resampled"
    \* ---- the App component ----
    pending,        \* the file waiting to be assigned, or "none"
    assigned,       \* pad note -> the file assigned to it, or "none"
    error,          \* the error message shown, or "null"
    exportStatus,   \* "null" or "inProgress"
    reads,          \* the files onClickBrowserFile is reading (readWavInfo in flight)
    plays,          \* the files onPlay is playing (playWavBlob in flight)
    exports,        \* the export calls in flight, each by what it will settle to
    downloads,      \* how many files were handed to the browser as downloads
    \* ---- onClickBrowserFile, call by call ----
    clickOrder,     \* the files whose readWavInfo is in flight, in the order clicked
    lastClicked,    \* the file clicked last, or "none"
    \* ---- the player (player.ts) ----
    audioContext,   \* "null" or "ctx"
    currentSource,  \* the number of the source currentSource refers to, or 0 for null
    sources,        \* the sources created, in order, each "playing", "stopped" or
                    \* "finished" (stop() was called / it played to its end, and
                    \* 'ended' is not yet dispatched), or "endedStopped" or
                    \* "endedFinished" ('ended' was dispatched)
    playCalls,      \* the playWavBlob calls in flight: [blob, at], in call order
    \* ---- decodeToAudioBuffer during an export ----
    contexts        \* the AudioContexts created, in order: "running", "closing"
                    \* (close() called, not yet settled) or "closed"

parserVars == <<made, view, offset, channels, sampleRate, bitsPerSample, dataBytes, ppc, info>>
exportVars == <<items, options, itemsSorted, idx, rendered, notes, frameLengths,
                totalFrames, regions, built, result, pc>>
audioVars == <<sample, quantized, source, targetChannels, targetRate, output, apc>>
appVars == <<pending, assigned, error, exportStatus, reads, plays, exports, downloads>>
browseVars == <<clickOrder, lastClicked>>
playerVars == <<audioContext, currentSource, sources, playCalls>>
decodeVars == <<contexts>>
vars == <<parserVars, exportVars, audioVars, appVars, browseVars, playerVars, decodeVars>>

\* What a call of one part leaves alone.
outsideParser == <<exportVars, audioVars, appVars, browseVars, playerVars, decodeVars>>
outsideExport == <<parserVars, audioVars, appVars, browseVars, playerVars, decodeVars>>
outsideAudio == <<parserVars, exportVars, appVars, browseVars, playerVars, decodeVars>>
outsideApp == <<parserVars, exportVars, audioVars, browseVars, playerVars, decodeVars>>
outsideBrowse == <<parserVars, exportVars, audioVars, playerVars, decodeVars>>
outsidePlayer == <<parserVars, exportVars, audioVars, appVars, browseVars, decodeVars>>
outsideDecode == <<parserVars, audioVars, appVars, browseVars, playerVars>>

-----------------------------------------------------------------------------
(* Bounds of the model. *)

MaxChunks == 3      \* chunks in a generated input buffer
MaxNotes == 3       \* notes handed to buildAcDryRegions
MaxFrames == 2      \* largest frame count handed to buildAcDryRegions
MaxItems == 3       \* items handed to the export

-----------------------------------------------------------------------------
(* Arithmetic helpers. *)

Min(a, b) == IF a <= b THEN a ELSE b
Max(a, b) == IF a >= b THEN a ELSE b

RECURSIVE GCD(_, _)
GCD(a, b) == IF b = 0 THEN a ELSE GCD(b, a % b)

\* The fraction n/d (d > 0) in lowest terms: the value of a JS number n / d.
Frac(n, d) ==
    LET g == GCD(IF n < 0 THEN -n ELSE n, d)
    IN  IF g = 0 THEN <<n, d>> ELSE <<n \div g, d \div g>>

RECURSIVE SumSeq(_)
SumSeq(s) == IF s = <<>> THEN 0 ELSE Head(s) + SumSeq(Tail(s))

RECURSIVE Flatten(_)
Flatten(ss) == IF ss = <<>> THEN <<>> ELSE Head(ss) \o Flatten(Tail(ss))

RECURSIVE SeqsUpTo(_, _)
\* All sequences over S of length 0..n.
SeqsUpTo(S, n) ==
    IF n = 0 THEN {<<>>}
    ELSE LET shorter == SeqsUpTo(S, n - 1)
         IN  shorter \cup {Append(s, x) : s \in {t \in shorter : Len(t) = n - 1}, x \in S}

-----------------------------------------------------------------------------
(* Bytes: DataView reads and writes, little-endian. *)

TagRIFF == <<82, 73, 70, 70>>       \* 'RIFF'
TagWAVE == <<87, 65, 86, 69>>       \* 'WAVE'
TagFmt  == <<102, 109, 116, 32>>    \* 'fmt '
TagData == <<100, 97, 116, 97>>     \* 'data'
TagLIST == <<76, 73, 83, 84>>       \* 'LIST'
TagINFO == <<73, 78, 70, 79>>       \* 'INFO'
TagTNGE == <<84, 78, 71, 69>>       \* 'TNGE'
TagSmpl == <<115, 109, 112, 108>>   \* 'smpl'

\* dv.setUint16(p, v, true) / dv.setUint32(p, v, true): the bytes written.
U16LE(v) == <<v % 256, (v \div 256) % 256>>
U32LE(v) == <<v % 256, (v \div 256) % 256, (v \div 65536) % 256, (v \div 16777216) % 256>>

getUint8(v, o) == v[o + 1]
getUint16(v, o) == v[o + 1] + 256 * v[o + 2]
getUint32(v, o) == v[o + 1] + 256 * v[o + 2] + 65536 * v[o + 3] + 16777216 * v[o + 4]

\* readAscii4: the four bytes at offset o, as character codes.
readAscii4(v, o) == <<getUint8(v, o), getUint8(v, o + 1), getUint8(v, o + 2), getUint8(v, o + 3)>>

RECURSIVE Zeros(_)
Zeros(n) == IF n <= 0 THEN <<>> ELSE <<0>> \o Zeros(n - 1)

-----------------------------------------------------------------------------
(* readWavInfo. *)

\* The locals of readWavInfo when the scan starts.
ScanStart == [offset |-> 12, channels |-> 0, sampleRate |-> 0, bitsPerSample |-> 0,
              dataBytes |-> 0, broke |-> FALSE]

\* A variant that checks the 'RIFF' tag only.
HeaderCheck_RiffOnly(v) ==
    IF Len(v) < 12 THEN "tooSmall"
    ELSE IF readAscii4(v, 0) # TagRIFF THEN "badHeader"
    ELSE "ok"

\* The header checks: the error thrown, or "ok".
HeaderCheck(v) ==
    IF Len(v) < 12 THEN "tooSmall"
    ELSE IF readAscii4(v, 0) # TagRIFF \/ readAscii4(v, 8) # TagWAVE THEN "badHeader"
    ELSE "ok"

\* A variant of the loop condition that asks for the 4 bytes of the id only.
ScanMore_IdOnly(v, st) == ~st.broke /\ st.offset + 4 <= Len(v)

\* The loop condition of the chunk scan.
ScanMore(v, st) == ~st.broke /\ st.offset + 8 <= Len(v)

\* A variant that takes the size of a data chunk before it checks that the chunk
\* lies within the buffer.
ScanChunk_SizeBeforeCheck(v, st) ==
    LET chunkId == readAscii4(v, st.offset)
        chunkSize == getUint32(v, st.offset + 4)
        chunkDataOffset == st.offset + 8
        seen == IF chunkId = TagData THEN [st EXCEPT !.dataBytes = chunkSize] ELSE st
    IN  IF chunkDataOffset + chunkSize > Len(v)
        THEN [seen EXCEPT !.broke = TRUE]
        ELSE LET next == chunkDataOffset + chunkSize + (chunkSize % 2)
             IN  IF chunkId = TagFmt /\ chunkSize >= 16
                 THEN [seen EXCEPT !.channels = getUint16(v, chunkDataOffset + 2),
                                   !.sampleRate = getUint32(v, chunkDataOffset + 4),
                                   !.bitsPerSample = getUint16(v, chunkDataOffset + 14),
                                   !.offset = next]
                 ELSE [seen EXCEPT !.offset = next]

\* A variant that reports the size of a data chunk rounded up to even.
ScanChunk_RoundedDataBytes(v, st) ==
    LET chunkId == readAscii4(v, st.offset)
        chunkSize == getUint32(v, st.offset + 4)
        chunkDataOffset == st.offset + 8
    IN  IF chunkDataOffset + chunkSize > Len(v)
        THEN [st EXCEPT !.broke = TRUE]
        ELSE LET next == chunkDataOffset + chunkSize + (chunkSize % 2)
             IN  IF chunkId = TagFmt
                 THEN IF chunkSize >= 16
                      THEN [st EXCEPT !.channels = getUint16(v, chunkDataOffset + 2),
                                      !.sampleRate = getUint32(v, chunkDataOffset + 4),
                                      !.bitsPerSample = getUint16(v, chunkDataOffset + 14),
                                      !.offset = next]
                      ELSE [st EXCEPT !.offset = next]
                 ELSE IF chunkId = TagData
                 THEN [st EXCEPT !.dataBytes = chunkSize + (chunkSize % 2), !.offset = next]
                 ELSE [st EXCEPT !.offset = next]

\* A variant that ends the scan at a chunk that is neither 'fmt ' nor 'data'.
ScanChunk_StopsAtUnknown(v, st) ==
    LET chunkId == readAscii4(v, st.offset)
        chunkSize == getUint32(v, st.offset + 4)
        chunkDataOffset == st.offset + 8
    IN  IF chunkDataOffset + chunkSize > Len(v)
        THEN [st EXCEPT !.broke = TRUE]
        ELSE LET next == chunkDataOffset + chunkSize + (chunkSize % 2)
             IN  IF chunkId = TagFmt
                 THEN IF chunkSize >= 16
                      THEN [st EXCEPT !.channels = getUint16(v, chunkDataOffset + 2),
                                      !.sampleRate = getUint32(v, chunkDataOffset + 4),
                                      !.bitsPerSample = getUint16(v, chunkDataOffset + 14),
                                      !.offset = next]
                      ELSE [st EXCEPT !.offset = next]
                 ELSE IF chunkId = TagData
                 THEN [st EXCEPT !.dataBytes = chunkSize, !.offset = next]
                 ELSE [st EXCEPT !.broke = TRUE]

\* One iteration of the chunk scan, from the locals st.
ScanChunk(v, st) ==
    LET chunkId == readAscii4(v, st.offset)
        chunkSize == getUint32(v, st.offset + 4)
        chunkDataOffset == st.offset + 8
    IN  IF chunkDataOffset + chunkSize > Len(v)
        THEN [st EXCEPT !.broke = TRUE]
        ELSE LET next == chunkDataOffset + chunkSize + (chunkSize % 2)
             IN  IF chunkId = TagFmt
                 THEN IF chunkSize >= 16
                      THEN [st EXCEPT !.channels = getUint16(v, chunkDataOffset + 2),
                                      !.sampleRate = getUint32(v, chunkDataOffset + 4),
                                      !.bitsPerSample = getUint16(v, chunkDataOffset + 14),
                                      !.offset = next]
                      ELSE [st EXCEPT !.offset = next]
                 ELSE IF chunkId = TagData
                 THEN [st EXCEPT !.dataBytes = chunkSize, !.offset = next]
                 ELSE [st EXCEPT !.offset = next]

\* A variant whose final check leaves out the data length.
ScanResult_NoDataCheck(st) ==
    IF st.channels = 0 \/ st.sampleRate = 0 \/ st.bitsPerSample = 0
    THEN [ok |-> FALSE, error |-> "missingFmtOrData"]
    ELSE LET byteRate8 == st.sampleRate * st.channels * st.bitsPerSample
         IN  IF byteRate8 <= 0
             THEN [ok |-> FALSE, error |-> "byteRate"]
             ELSE [ok |-> TRUE, channels |-> st.channels, sampleRate |-> st.sampleRate,
                   bitsPerSample |-> st.bitsPerSample, dataBytes |-> st.dataBytes,
                   durationSec |-> Frac(st.dataBytes * 8, byteRate8)]

\* What readWavInfo returns or throws once the scan is over.
ScanResult(st) ==
    IF st.channels = 0 \/ st.sampleRate = 0 \/ st.bitsPerSample = 0 \/ st.dataBytes = 0
    THEN [ok |-> FALSE, error |-> "missingFmtOrData"]
    ELSE \* byteRate = sampleRate * channels * (bitsPerSample / 8), as the fraction over 8
         LET byteRate8 == st.sampleRate * st.channels * st.bitsPerSample
         IN  IF byteRate8 <= 0
             THEN [ok |-> FALSE, error |-> "byteRate"]
             ELSE [ok |-> TRUE, channels |-> st.channels, sampleRate |-> st.sampleRate,
                   bitsPerSample |-> st.bitsPerSample, dataBytes |-> st.dataBytes,
                   durationSec |-> Frac(st.dataBytes * 8, byteRate8)]

\* The offsets of the bytes the header checks read (lines 26-32): none of a
\* buffer shorter than 12 bytes.
HeaderReads(v) == IF Len(v) < 12 THEN {} ELSE (0..3) \cup (8..11)

\* The offsets of the bytes one loop turn reads from the locals st (lines 43-59):
\* the chunk id and size and, for a 'fmt ' chunk of 16 bytes or more that ends
\* within the buffer, the three fields.  A DataView read outside the buffer
\* throws, so nothing is read after it.
TurnReads(v, st) ==
    IF ~ScanMore(v, st) THEN {}
    ELSE LET head == st.offset..(st.offset + 7)
             chunkDataOffset == st.offset + 8
         IN  IF ~(head \subseteq 0..(Len(v) - 1)) THEN head
             ELSE IF chunkDataOffset + getUint32(v, st.offset + 4) > Len(v) THEN head
             ELSE IF readAscii4(v, st.offset) = TagFmt /\ getUint32(v, st.offset + 4) >= 16
                  THEN head \cup ((chunkDataOffset + 2)..(chunkDataOffset + 7))
                            \cup {chunkDataOffset + 14, chunkDataOffset + 15}
                  ELSE head

RECURSIVE ScanAll(_, _)
ScanAll(v, st) == IF ScanMore(v, st) THEN ScanAll(v, ScanChunk(v, st)) ELSE st

\* readWavInfo as a function of the file's bytes.
readWavInfo(v) ==
    LET h == HeaderCheck(v)
    IN  IF h # "ok" THEN [ok |-> FALSE, error |-> h]
        ELSE ScanResult(ScanAll(v, ScanStart))

-----------------------------------------------------------------------------
(* The input buffers of the parser: a 12-byte header, chunks, a tail.      *)

\* A chunk as written into a buffer: its id, its declared size and the bytes
\* that follow the 8-byte chunk header (fewer than `size` in a truncated chunk).
Chunk(id, size, payload, ch, sr, bits) ==
    [id |-> id, size |-> size, payload |-> payload,
     channels |-> ch, sampleRate |-> sr, bitsPerSample |-> bits]

\* The 16 bytes of a WAVEFORMATEX payload.
FmtPayload(ch, sr, bits) ==
    U16LE(1) \o U16LE(ch) \o U32LE(sr) \o U32LE((sr * ch * bits) \div 8)
        \o U16LE((ch * bits) \div 8) \o U16LE(bits)

ChunkKinds ==
    { Chunk(TagFmt, 16, FmtPayload(1, 22050, 16), 1, 22050, 16),
      Chunk(TagFmt, 18, FmtPayload(2, 44100, 24) \o <<0, 0>>, 2, 44100, 24),
      Chunk(TagFmt, 16, FmtPayload(0, 22050, 16), 0, 22050, 16),
      Chunk(TagFmt, 14, SubSeq(FmtPayload(1, 22050, 16), 1, 14), 1, 22050, 16),
      Chunk(TagData, 3, <<1, 2, 3, 0>>, 0, 0, 0),
      Chunk(TagData, 0, <<>>, 0, 0, 0),
      Chunk(TagLIST, 5, <<73, 78, 70, 79, 7, 0>>, 0, 0, 0),
      \* truncated: the declared size runs past the end of any buffer built here
      Chunk(TagData, 200000000, <<1, 2>>, 0, 0, 0),
      Chunk(TagFmt, 4000, FmtPayload(2, 44100, 16), 2, 44100, 16) }

Headers ==
    { TagRIFF \o U32LE(0) \o TagWAVE,
      <<82, 73, 70, 88>> \o U32LE(0) \o TagWAVE,     \* 'RIFX'
      TagRIFF \o U32LE(0) \o <<87, 65, 86, 88>> }    \* 'WAVX'

\* What follows the chunks: nothing, a chunk id, seven bytes of a chunk header,
\* or a 'fmt ' chunk of 16 bytes of which the buffer holds the first 10.
Tails == { <<>>, TagData, TagData \o <<4, 0, 0>>,
           TagFmt \o U32LE(16) \o SubSeq(FmtPayload(2, 44100, 16), 1, 10) }

ChunkBytes(c) == c.id \o U32LE(c.size) \o c.payload

RECURSIVE ChunksBytes(_)
ChunksBytes(cs) == IF cs = <<>> THEN <<>> ELSE ChunkBytes(Head(cs)) \o ChunksBytes(Tail(cs))

\* The buffer a description stands for; keep >= 0 keeps only its first bytes.
BufferOf(m) ==
    LET all == m.hdr \o ChunksBytes(m.chunks) \o m.tail
    IN  IF m.keep < 0 THEN all ELSE SubSeq(all, 1, Min(m.keep, Len(all)))

NoBuffer == [hdr |-> <<>>, chunks |-> <<>>, tail |-> <<>>, keep |-> -1]

-----------------------------------------------------------------------------
(* The state of the calls that a specification does not run. *)

ParserIdle ==
    /\ made = NoBuffer /\ view = <<>> /\ offset = 0 /\ channels = 0 /\ sampleRate = 0
    /\ bitsPerSample = 0 /\ dataBytes = 0 /\ ppc = "idle" /\ info = [ok |-> FALSE, error |-> "none"]

ExportIdle ==
    /\ items = <<>> /\ options = [sampleRate |-> 0, channels |-> 1] /\ itemsSorted = <<>>
    /\ idx = 0 /\ rendered = <<>> /\ notes = <<>> /\ frameLengths = <<>> /\ totalFrames = 0
    /\ regions = <<>> /\ built = <<>> /\ result = [ok |-> FALSE, error |-> "none"] /\ pc = "idle"

AudioIdle ==
    /\ sample = <<0, 1>> /\ quantized = 0
    /\ source = [sampleRate |-> 0, numberOfChannels |-> 0, length |-> 0, channelData |-> <<>>]
    /\ targetChannels = 1 /\ targetRate = 0
    /\ output = [sampleRate |-> 0, numberOfChannels |-> 0, length |-> 0, channelData |-> <<>>]
    /\ apc = "idle"

AppIdle ==
    /\ pending = "none" /\ assigned = <<>> /\ error = "null" /\ exportStatus = "null"
    /\ reads = {} /\ plays = {} /\ exports = <<>> /\ downloads = 0

BrowseIdle == clickOrder = <<>> /\ lastClicked = "none"

PlayerIdle ==
    audioContext = "null" /\ currentSource = 0 /\ sources = <<>> /\ playCalls = <<>>

DecodeIdle == contexts = <<>>

-----------------------------------------------------------------------------
(* SpecParser: readWavInfo on generated buffers, one step per loop turn.   *)

InitParser ==
    /\ \/ \E h \in Headers, cs \in SeqsUpTo(ChunkKinds, MaxChunks), t \in Tails :
            made = [hdr |-> h, chunks |-> cs, tail |-> t, keep |-> -1]
       \/ \E k \in 0..11 :
            made = [hdr |-> TagRIFF \o U32LE(0) \o TagWAVE,
                    chunks |-> <<Chunk(TagFmt, 16, FmtPayload(1, 22050, 16), 1, 22050, 16)>>,
                    tail |-> <<>>, keep |-> k]
    /\ view = BufferOf(made)
    /\ offset = 0 /\ channels = 0 /\ sampleRate = 0 /\ bitsPerSample = 0 /\ dataBytes = 0
    /\ ppc = "start"
    /\ info = [ok |-> FALSE, error |-> "none"]
    /\ ExportIdle
    /\ AudioIdle
    /\ AppIdle
    /\ BrowseIdle
    /\ PlayerIdle
    /\ DecodeIdle

Locals == [offset |-> offset, channels |-> channels, sampleRate |-> sampleRate,
           bitsPerSample |-> bitsPerSample, dataBytes |-> dataBytes, broke |-> FALSE]

\* Lines 26-35: the header is rejected.
HeaderThrow ==
    /\ ppc = "start"
    /\ HeaderCheck(view) # "ok"
    /\ ppc' = "failed"
    /\ info' = [ok |-> FALSE, error |-> HeaderCheck(view)]
    /\ UNCHANGED <<made, view, offset, channels, sampleRate, bitsPerSample, dataBytes>>
    /\ UNCHANGED outsideParser

\* Lines 26-41: the header is accepted and the scan starts at offset 12.
HeaderOk ==
    /\ ppc = "start"
    /\ HeaderCheck(view) = "ok"
    /\ ppc' = "scan"
    /\ offset' = ScanStart.offset
    /\ channels' = ScanStart.channels
    /\ sampleRate' = ScanStart.sampleRate
    /\ bitsPerSample' = ScanStart.bitsPerSample
    /\ dataBytes' = ScanStart.dataBytes
    /\ UNCHANGED <<made, view, info>>
    /\ UNCHANGED outsideParser

\* Lines 43-67: one turn of the while loop.
ScanStep ==
    /\ ppc = "scan"
    /\ ScanMore(view, Locals)
    /\ LET st == ScanChunk(view, Locals)
       IN  /\ offset' = st.offset
           /\ channels' = st.channels
           /\ sampleRate' = st.sampleRate
           /\ bitsPerSample' = st.bitsPerSample
           /\ dataBytes' = st.dataBytes
           /\ ppc' = IF st.broke THEN "check" ELSE "scan"
    /\ UNCHANGED <<made, view, info>>
    /\ UNCHANGED outsideParser

\* Line 43: the loop condition fails, the scan is over.
ScanEnd ==
    /\ ppc = "scan"
    /\ ~ScanMore(view, Locals)
    /\ ppc' = "check"
    /\ UNCHANGED <<made, view, offset, channels, sampleRate, bitsPerSample, dataBytes, info>>
    /\ UNCHANGED outsideParser

\* Lines 69-80: the final checks and the return.
Finish ==
    /\ ppc = "check"
    /\ info' = ScanResult(Locals)
    /\ ppc' = IF ScanResult(Locals).ok THEN "done" ELSE "failed"
    /\ UNCHANGED <<made, view, offset, channels, sampleRate, bitsPerSample, dataBytes>>
    /\ UNCHANGED outsideParser

NextParser == HeaderThrow \/ HeaderOk \/ ScanStep \/ ScanEnd \/ Finish

SpecParser == InitParser /\ [][NextParser]_vars

-----------------------------------------------------------------------------
(* buildAcDryRegions. *)

\* frameLengthsByIndex[i] ?? 0 (i counted from 1 here).
FramesAt(frameLengthsByIndex, i) ==
    IF i \in 1..Len(frameLengthsByIndex) THEN frameLengthsByIndex[i] ELSE 0

\* A variant that rounds the midpoint down.
Midpoint_RoundDown(prev, cur) == (prev + cur) \div 2

\* Math.floor((sortedNotes[i - 1] + sortedNotes[i] + 1) / 2)
Midpoint(prev, cur) == (prev + cur + 1) \div 2

\* A variant whose lowest boundary is key 1.
Boundaries_From1(sortedNotes) ==
    <<1>> \o [j \in 1..(Len(sortedNotes) - 1) |-> Midpoint(sortedNotes[j], sortedNotes[j + 1])]
          \o <<127>>

\* boundaries = [0, midpoints..., 127]
Boundaries(sortedNotes) ==
    <<0>> \o [j \in 1..(Len(sortedNotes) - 1) |-> Midpoint(sortedNotes[j], sortedNotes[j + 1])]
          \o <<127>>

RECURSIVE RegionLoop(_, _, _, _, _)
\* The second loop, from index i with currentFrame frames emitted so far.
RegionLoop(sortedNotes, frameLengthsByIndex, boundaries, i, currentFrame) ==
    IF i > Len(sortedNotes) THEN <<>>
    ELSE LET frames == FramesAt(frameLengthsByIndex, i)
         IN  IF frames <= 0
             THEN RegionLoop(sortedNotes, frameLengthsByIndex, boundaries, i + 1, currentFrame)
             ELSE <<[sample_start |-> currentFrame,
                     sample_end |-> currentFrame + frames,
                     sample_lokey |-> boundaries[i],
                     sample_hikey |-> boundaries[i + 1],
                     sound_rootnote |-> sortedNotes[i]]>>
                  \o RegionLoop(sortedNotes, frameLengthsByIndex, boundaries, i + 1,
                                currentFrame + frames)

\* A variant that takes the boundaries from the notes that came with a frame
\* count, leaving out the notes whose count is missing.
buildAcDryRegions_BoundariesOfCounted(sortedNotes, frameLengthsByIndex) ==
    LET counted == SubSeq(sortedNotes, 1, Min(Len(sortedNotes), Len(frameLengthsByIndex)))
    IN  IF Len(counted) = 0 THEN <<>>
        ELSE RegionLoop(counted, frameLengthsByIndex, Boundaries(counted), 1, 0)

\* A variant whose running frame offset starts at 1.
buildAcDryRegions_StartsAtOne(sortedNotes, frameLengthsByIndex) ==
    IF Len(sortedNotes) = 0 THEN <<>>
    ELSE RegionLoop(sortedNotes, frameLengthsByIndex, Boundaries(sortedNotes), 1, 1)

buildAcDryRegions(sortedNotes, frameLengthsByIndex) ==
    IF Len(sortedNotes) = 0 THEN <<>>
    ELSE RegionLoop(sortedNotes, frameLengthsByIndex, Boundaries(sortedNotes), 1, 0)

-----------------------------------------------------------------------------
(* Decoded audio.  A sample is a fraction <<n, d>>, d > 0; an AudioBuffer is *)
(* [sampleRate, numberOfChannels, length, channelData].                    *)

AudioBuffer(rate, chans, len, data) ==
    [sampleRate |-> rate, numberOfChannels |-> chans, length |-> len, channelData |-> data]

\* a \div b rounded toward zero (b > 0): the effect of `| 0` on the quotient.
TruncDiv(a, b) == IF a >= 0 THEN a \div b ELSE -((-a) \div b)

\* Math.round of the non-negative fraction n / d.
Round(n, d) == (2 * n + d) \div (2 * d)

\* A sample value is the fraction <<n, d>> with d > 0; <<1, 0>> and <<-1, 0>>
\* stand for +Infinity and -Infinity and <<0, 0>> for NaN.

\* A variant that scales both signs by 32767.
clampInt16_Symmetric(x) ==
    IF x[2] = 0
    THEN (IF x[1] > 0 THEN 32767 ELSE IF x[1] < 0 THEN -32767 ELSE 0)
    ELSE LET n == IF x[1] > x[2] THEN x[2] ELSE IF x[1] < -x[2] THEN -x[2] ELSE x[1]
         IN  TruncDiv(n * 32767, x[2])

\* Lines 164-168.  NaN passes both comparisons and NaN | 0 is 0; the infinities
\* are clamped like any value beyond full scale.
clampInt16(x) ==
    IF x[2] = 0
    THEN (IF x[1] > 0 THEN 32767 ELSE IF x[1] < 0 THEN -32768 ELSE 0)
    ELSE LET n == IF x[1] > x[2] THEN x[2] ELSE IF x[1] < -x[2] THEN -x[2] ELSE x[1]
         IN  IF n < 0 THEN TruncDiv(n * 32768, x[2]) ELSE TruncDiv(n * 32767, x[2])

\* The files of the model, by name, and what decoding each of them gives: two
\* stereo frames at 22050 Hz, four mono frames at 44100 Hz with samples beyond
\* full scale, a file without frames, and a file the decoder rejects.
FileNames == {"stereo", "hi", "empty", "bad"}

Decoded(file) ==
    CASE file = "stereo" ->
           AudioBuffer(22050, 2, 2, << <<<<1, 1>>, <<-1, 1>>>>, <<<<-1, 2>>, <<1, 4>>>> >>)
      [] file = "hi" ->
           AudioBuffer(44100, 1, 4, << <<<<2, 1>>, <<-2, 1>>, <<1, 4>>, <<-3, 4>>>> >>)
      [] file = "empty" -> AudioBuffer(22050, 1, 0, << <<>> >>)

\* decodeToAudioBuffer: the decoded buffer of a file, or the decoder's error.
decodeToAudioBuffer(file) ==
    IF file = "bad" THEN [ok |-> FALSE, error |-> "decode"]
    ELSE [ok |-> TRUE, buffer |-> Decoded(file)]

\* A variant that truncates the frame count where line 183 rounds it.
resample_Truncates(buffer, rate) ==
    IF buffer.sampleRate = rate THEN buffer
    ELSE LET length == Max(1, (buffer.length * rate) \div buffer.sampleRate)
             pick(src) ==
                 [i \in 1..length |->
                     IF buffer.length = 0 THEN <<0, 1>>
                     ELSE src[Min(buffer.length, ((i - 1) * buffer.length) \div length + 1)]]
         IN  AudioBuffer(rate, buffer.numberOfChannels, length,
                         [c \in 1..buffer.numberOfChannels |-> pick(buffer.channelData[c])])

\* resample: the offline rendering is taken to pick, for each output frame, the
\* source frame at the same point in time (silence where the source has none).
resample(buffer, rate) ==
    IF buffer.sampleRate = rate THEN buffer
    ELSE LET length == Max(1, Round(buffer.length * rate, buffer.sampleRate))
             pick(src) ==
                 [i \in 1..length |->
                     IF buffer.length = 0 THEN <<0, 1>>
                     ELSE src[Min(buffer.length, ((i - 1) * buffer.length) \div length + 1)]]
         IN  AudioBuffer(rate, buffer.numberOfChannels, length,
                         [c \in 1..buffer.numberOfChannels |-> pick(buffer.channelData[c])])

RECURSIVE SumSamples(_, _, _)
\* The sum of sample i over the channels c..N, as a fraction.
SumSamples(data, c, i) ==
    IF c > Len(data) THEN <<0, 1>>
    ELSE LET rest == SumSamples(data, c + 1, i)
             x == data[c][i]
         IN  Frac(x[1] * rest[2] + rest[1] * x[2], x[2] * rest[2])

\* A variant whose downmix keeps the first channel instead of the mean.
toTargetChannels_FirstChannelOnly(buffer, chans) ==
    IF chans = 1
    THEN AudioBuffer(buffer.sampleRate, 1, buffer.length, <<buffer.channelData[1]>>)
    ELSE IF buffer.numberOfChannels = 1
    THEN AudioBuffer(buffer.sampleRate, 2, buffer.length,
             <<buffer.channelData[1], buffer.channelData[1]>>)
    ELSE AudioBuffer(buffer.sampleRate, 2, buffer.length,
             <<buffer.channelData[1], buffer.channelData[2]>>)

toTargetChannels(buffer, chans) ==
    IF chans = 1
    THEN AudioBuffer(buffer.sampleRate, 1, buffer.length,
             <<[i \in 1..buffer.length |->
                  LET sum == SumSamples(buffer.channelData, 1, i)
                  IN  Frac(sum[1], sum[2] * buffer.numberOfChannels)]>>)
    ELSE IF buffer.numberOfChannels = 1
    THEN AudioBuffer(buffer.sampleRate, 2, buffer.length,
             <<buffer.channelData[1], buffer.channelData[1]>>)
    ELSE AudioBuffer(buffer.sampleRate, 2, buffer.length,
             <<buffer.channelData[1], buffer.channelData[2]>>)

\* interleavePcm16: the Int16Array, frame by frame, channel by channel.
interleavePcm16(buffer, chans) ==
    [k \in 1..(buffer.length * chans) |->
        clampInt16(buffer.channelData[((k - 1) % chans) + 1][((k - 1) \div chans) + 1])]

\* The bytes of an Int16Array (two's complement, little-endian).
Int16Bytes(pcm) == Flatten([k \in 1..Len(pcm) |-> U16LE((pcm[k] + 65536) % 65536)])

-----------------------------------------------------------------------------
(* The chunk builders. *)

RECURSIVE Digits(_)
Digits(n) == IF n < 10 THEN <<48 + n>> ELSE Digits(n \div 10) \o <<48 + (n % 10)>>

\* JSON.stringify of an integer.
JsonNumber(n) == IF n < 0 THEN <<45>> \o Digits(-n) ELSE Digits(n)

\* {"sound.playmode":"key","sound.rootnote":60,"sound.pitch":0,"sound.pan":0,
\*  "sound.amplitude":100,"envelope.attack":0,"envelope.release":0,
\*  "time.mode":"off","sample.mode":"multi","regions":[
JsonHead ==
    <<123, 34, 115, 111, 117, 110, 100, 46, 112, 108, 97, 121, 109, 111, 100, 101, 34, 58,
      34, 107, 101, 121, 34, 44, 34, 115, 111, 117, 110, 100, 46, 114, 111, 111, 116, 110,
      111, 116, 101, 34, 58, 54, 48, 44, 34, 115, 111, 117, 110, 100, 46, 112, 105, 116, 99,
      104, 34, 58, 48, 44, 34, 115, 111, 117, 110, 100, 46, 112, 97, 110, 34, 58, 48, 44, 34,
      115, 111, 117, 110, 100, 46, 97, 109, 112, 108, 105, 116, 117, 100, 101, 34, 58, 49,
      48, 48, 44, 34, 101, 110, 118, 101, 108, 111, 112, 101, 46, 97, 116, 116, 97, 99, 107,
      34, 58, 48, 44, 34, 101, 110, 118, 101, 108, 111, 112, 101, 46, 114, 101, 108, 101, 97,
      115, 101, 34, 58, 48, 44, 34, 116, 105, 109, 101, 46, 109, 111, 100, 101, 34, 58, 34,
      111, 102, 102, 34, 44, 34, 115, 97, 109, 112, 108, 101, 46, 109, 111, 100, 101, 34, 58,
      34, 109, 117, 108, 116, 105, 34, 44, 34, 114, 101, 103, 105, 111, 110, 115, 34, 58, 91>>

KeyStart     == <<123, 34, 115, 97, 109, 112, 108, 101, 46, 115, 116, 97, 114, 116, 34, 58>>                  \* {"sample.start":
KeyEnd       == <<44, 34, 115, 97, 109, 112, 108, 101, 46, 101, 110, 100, 34, 58>>                             \* ,"sample.end":
KeyLokey     == <<44, 34, 115, 97, 109, 112, 108, 101, 46, 108, 111, 107, 101, 121, 34, 58>>                   \* ,"sample.lokey":
KeyHikey     == <<44, 34, 115, 97, 109, 112, 108, 101, 46, 104, 105, 107, 101, 121, 34, 58>>                   \* ,"sample.hikey":
KeyRootnote  == <<44, 34, 115, 111, 117, 110, 100, 46, 114, 111, 111, 116, 110, 111, 116, 101, 34, 58>>        \* ,"sound.rootnote":
KeyLoopstart == <<44, 34, 115, 111, 117, 110, 100, 46, 108, 111, 111, 112, 115, 116, 97, 114, 116, 34, 58>>    \* ,"sound.loopstart":
KeyLoopend   == <<44, 34, 115, 111, 117, 110, 100, 46, 108, 111, 111, 112, 101, 110, 100, 34, 58>>             \* ,"sound.loopend":

\* A variant that writes the two keys of the range in each other's place.
JsonRegion_SwappedKeys(r) ==
    KeyStart \o JsonNumber(r.sample_start) \o KeyEnd \o JsonNumber(r.sample_end)
        \o KeyLokey \o JsonNumber(r.sample_hikey) \o KeyHikey \o JsonNumber(r.sample_lokey)
        \o KeyRootnote \o JsonNumber(r.sound_rootnote)
        \o KeyLoopstart \o JsonNumber(-1) \o KeyLoopend \o JsonNumber(-1) \o <<125>>

\* One entry of the regions array.
JsonRegion(r) ==
    KeyStart \o JsonNumber(r.sample_start) \o KeyEnd \o JsonNumber(r.sample_end)
        \o KeyLokey \o JsonNumber(r.sample_lokey) \o KeyHikey \o JsonNumber(r.sample_hikey)
        \o KeyRootnote \o JsonNumber(r.sound_rootnote)
        \o KeyLoopstart \o JsonNumber(-1) \o KeyLoopend \o JsonNumber(-1) \o <<125>>

RECURSIVE JsonRegions(_)
JsonRegions(rs) ==
    IF rs = <<>> THEN <<>>
    ELSE JsonRegion(Head(rs)) \o (IF Tail(rs) = <<>> THEN <<>> ELSE <<44>>) \o JsonRegions(Tail(rs))

\* enc.encode(JSON.stringify(tnge) + '\u0000')
TngeJson(rs) == JsonHead \o JsonRegions(rs) \o <<93, 125>> \o <<0>>

\* A variant that never pads the JSON.
buildListChunkTnge_NoPad(rs) ==
    LET tngeJson == TngeJson(rs)
    IN  TagLIST \o U32LE(4 + 4 + 4 + Len(tngeJson)) \o TagINFO \o TagTNGE
            \o U32LE(Len(tngeJson)) \o tngeJson

buildListChunkTnge(rs) ==
    LET tngeJson == TngeJson(rs)
        infoLenNoPad == 4 + 4 + 4 + Len(tngeJson)
        infoPad == IF infoLenNoPad % 2 = 0 THEN 0 ELSE 1
        infoLen == infoLenNoPad + infoPad
        listChunkSize == infoLen
    IN  TagLIST \o U32LE(listChunkSize) \o TagINFO \o TagTNGE \o U32LE(Len(tngeJson))
            \o tngeJson \o Zeros(infoPad)

buildSmplChunk(rate) ==
    LET samplePeriod == IF rate > 0 THEN 1000000000 \div rate ELSE 0
    IN  TagSmpl \o U32LE(36) \o U32LE(0) \o U32LE(0) \o U32LE(samplePeriod) \o U32LE(60)
            \o U32LE(0) \o U32LE(0) \o U32LE(0) \o U32LE(0) \o U32LE(0)

\* A variant that writes blockAlign and bitsPerSample in each other's place.
buildFmtChunkPcm_Swapped(chans, rate, bits) ==
    LET blockAlign == chans * (bits \div 8)
    IN  TagFmt \o U32LE(16) \o U16LE(1) \o U16LE(chans) \o U32LE(rate)
            \o U32LE(rate * blockAlign) \o U16LE(bits) \o U16LE(blockAlign)

buildFmtChunkPcm(chans, rate, bits) ==
    LET bytesPerSample == bits \div 8
        blockAlign == chans * bytesPerSample
        byteRate == rate * blockAlign
    IN  TagFmt \o U32LE(16) \o U16LE(1) \o U16LE(chans) \o U32LE(rate) \o U32LE(byteRate)
            \o U16LE(blockAlign) \o U16LE(bits)

buildDataChunk(pcm) ==
    LET bytes == Int16Bytes(pcm)
        dataBytesLen == Len(bytes)
        pad == IF dataBytesLen % 2 = 0 THEN 0 ELSE 1
    IN  TagData \o U32LE(dataBytesLen + pad) \o bytes \o Zeros(pad)

-----------------------------------------------------------------------------
(* SpecRegions: buildAcDryRegions on ascending note lists.                 *)

\* The MIDI notes the lists are drawn from: both ends of the keyboard, neighbours,
\* and pairs whose sum is even (60, 64) and odd (60, 67).
NoteSet == {0, 1, 60, 64, 67, 126, 127}

Ascending(s) == \A j \in 1..(Len(s) - 1) : s[j] <= s[j + 1]
Distinct(s) == \A j, k \in 1..Len(s) : j # k => s[j] # s[k]

InitRegions ==
    /\ notes \in {s \in SeqsUpTo(NoteSet, MaxNotes) : Ascending(s)}
    /\ frameLengths \in {f \in SeqsUpTo(-1..MaxFrames, MaxNotes) :
                            Len(f) \in {Len(notes), Len(notes) - 1}}
    /\ regions = <<>>
    /\ pc = "call"
    /\ items = <<>> /\ options = [sampleRate |-> 0, channels |-> 1] /\ itemsSorted = <<>>
    /\ idx = 0 /\ rendered = <<>> /\ totalFrames = 0 /\ built = <<>>
    /\ result = [ok |-> FALSE, error |-> "none"]
    /\ ParserIdle
    /\ AudioIdle
    /\ AppIdle
    /\ BrowseIdle
    /\ PlayerIdle
    /\ DecodeIdle

\* One call of buildAcDryRegions(notes, frameLengths).
BuildRegions ==
    /\ pc = "call"
    /\ regions' = buildAcDryRegions(notes, frameLengths)
    /\ pc' = "returned"
    /\ UNCHANGED <<items, options, itemsSorted, idx, rendered, notes, frameLengths,
                   totalFrames, built, result>>
    /\ UNCHANGED outsideExport

NextRegions == BuildRegions

SpecRegions == InitRegions /\ [][NextRegions]_vars

\* The call has returned, and every note came with a positive frame count.
ReturnedAllPositive ==
    /\ pc = "returned"
    /\ Len(frameLengths) = Len(notes)
    /\ \A j \in 1..Len(frameLengths) : frameLengths[j] > 0

\* The regions whose inclusive key range holds key.
RegionsHolding(key) ==
    {j \in 1..Len(regions) : regions[j].sample_lokey <= key /\ key <= regions[j].sample_hikey}

\* C1 as stated: for ascending distinct notes with positive frame counts, every
\* key of 0..127 lies in the key range of exactly one region.
C1_ExactPartition ==
    (ReturnedAllPositive /\ Distinct(notes) /\ Len(notes) >= 1)
        => \A key \in 0..127 : Cardinality(RegionsHolding(key)) = 1

\* C1 amended: the key ranges cover 0..127 without a gap, from 0 to 127, and
\* consecutive regions share their boundary key: region j ends on the key region
\* j + 1 starts on.  That boundary key lies in exactly those two regions, and
\* every other key lies in exactly one region.
C1_SharedBoundaries ==
    (ReturnedAllPositive /\ Distinct(notes) /\ Len(notes) >= 1)
        => /\ Len(regions) = Len(notes)
           /\ regions[1].sample_lokey = 0
           /\ regions[Len(regions)].sample_hikey = 127
           /\ \A j \in 1..(Len(regions) - 1) :
                 /\ regions[j].sample_hikey = regions[j + 1].sample_lokey
                 /\ RegionsHolding(regions[j].sample_hikey) = {j, j + 1}
           /\ \A key \in 0..127 :
                 \/ Cardinality(RegionsHolding(key)) = 1
                 \/ \E j \in 1..(Len(regions) - 1) : key = regions[j].sample_hikey

C1_Witness ==
    ReturnedAllPositive /\ notes = <<60, 64, 67>> /\ RegionsHolding(62) = {1, 2}

\* C2: for ascending notes with positive frame counts there is one region per
\* note, in note order, rooted at its note, from the rounded-up midpoint with the
\* previous note (0 for the first) to the rounded-up midpoint with the next note
\* (127 for the last); notes 60, 64, 67 give the boundaries 0, 62, 66, 127.
C2_RegionKeys ==
    /\ (ReturnedAllPositive /\ Len(notes) >= 1)
          => /\ Len(regions) = Len(notes)
             /\ \A j \in 1..Len(notes) :
                   /\ regions[j].sound_rootnote = notes[j]
                   /\ regions[j].sample_lokey =
                        (IF j = 1 THEN 0 ELSE (notes[j - 1] + notes[j] + 1) \div 2)
                   /\ regions[j].sample_hikey =
                        (IF j = Len(notes) THEN 127 ELSE (notes[j] + notes[j + 1] + 1) \div 2)
    /\ (ReturnedAllPositive /\ notes = <<60, 64, 67>>)
          => <<regions[1].sample_lokey, regions[2].sample_lokey,
               regions[3].sample_lokey, regions[3].sample_hikey>> = <<0, 62, 66, 127>>

C2_Witness ==
    ReturnedAllPositive /\ notes = <<60, 64, 67>> /\ Len(regions) = 3


-----------------------------------------------------------------------------
(* exportAcDryKitWavPcm16. *)

ExportNotes == {60, 64, 67}
ExportOptions == [sampleRate : {22050, 44100}, channels : {1, 2}]

RECURSIVE InsertByNote(_, _)
\* it placed after every item of the sorted list whose note is not larger.
InsertByNote(sorted, it) ==
    IF sorted = <<>> THEN <<it>>
    ELSE IF Head(sorted).note <= it.note
         THEN <<Head(sorted)>> \o InsertByNote(Tail(sorted), it)
         ELSE <<it>> \o sorted

\* A variant that keeps the caller's order.
SortByNote_Unsorted(its) == its

RECURSIVE SortByNote_Ascending(_)
SortByNote_Ascending(its) ==
    IF its = <<>> THEN <<>>
    ELSE InsertByNote(SortByNote_Ascending(SubSeq(its, 1, Len(its) - 1)), its[Len(its)])

\* A variant that sorts by descending note.
SortByNote_Descending(its) ==
    LET up == SortByNote_Ascending(its)
    IN  [j \in 1..Len(up) |-> up[Len(up) + 1 - j]]

RECURSIVE SortByNote(_)
\* [...items].sort((a, b) => a.note - b.note): ascending, stable.
SortByNote(its) ==
    IF its = <<>> THEN <<>>
    ELSE InsertByNote(SortByNote(SubSeq(its, 1, Len(its) - 1)), its[Len(its)])

\* decode -> resample -> remix of one file that decodes.
Render(file, opts) ==
    toTargetChannels(resample(decodeToAudioBuffer(file).buffer, opts.sampleRate), opts.channels)

\* The Int16Array of the whole kit: the rendered buffers, in order.
KitPcm(bufs, opts) == Flatten([k \in 1..Len(bufs) |-> interleavePcm16(bufs[k], opts.channels)])

\* A variant whose RIFF size leaves out the 4 bytes of 'WAVE'.
KitBytes_SizeWithoutWave(c) ==
    LET riffSize == Len(c.fmt) + Len(c.list) + Len(c.smpl) + Len(c.data)
    IN  TagRIFF \o U32LE(riffSize) \o TagWAVE \o c.fmt \o c.list \o c.smpl \o c.data

\* riffSize = 4 + the four chunks' lengths; the file is 'RIFF' size 'WAVE' chunks.
KitBytes(c) ==
    LET riffSize == 4 + Len(c.fmt) + Len(c.list) + Len(c.smpl) + Len(c.data)
    IN  TagRIFF \o U32LE(riffSize) \o TagWAVE \o c.fmt \o c.list \o c.smpl \o c.data

\* exportAcDryKitWavPcm16 as a function of its arguments, for items that all decode.
exportAcDryKitWavPcm16(its, opts) ==
    LET sorted == SortByNote(its)
        all == [j \in 1..Len(sorted) |-> Render(sorted[j].file, opts)]
        keptIdx == SelectSeq([j \in 1..Len(sorted) |-> j], LAMBDA j : ~(all[j].length <= 0))
        kept == [k \in 1..Len(keptIdx) |-> all[keptIdx[k]]]
        keptNotes == [k \in 1..Len(keptIdx) |-> sorted[keptIdx[k]].note]
        lengths == [k \in 1..Len(keptIdx) |-> kept[k].length]
        c == [fmt |-> buildFmtChunkPcm(opts.channels, opts.sampleRate, 16),
              list |-> buildListChunkTnge(buildAcDryRegions(keptNotes, lengths)),
              smpl |-> buildSmplChunk(opts.sampleRate),
              data |-> buildDataChunk(KitPcm(kept, opts))]
    IN  [ok |-> TRUE, wavBytes |-> KitBytes(c),
         durationSec |-> Frac(SumSeq(lengths), opts.sampleRate)]

\* A call of exportAcDryKitWavPcm16 on generated arguments.
KitCall ==
    /\ items \in SeqsUpTo([note : ExportNotes, file : FileNames], MaxItems)
    /\ options \in ExportOptions
    /\ itemsSorted = <<>> /\ idx = 0 /\ rendered = <<>> /\ notes = <<>> /\ frameLengths = <<>>
    /\ totalFrames = 0 /\ regions = <<>> /\ built = <<>>
    /\ result = [ok |-> FALSE, error |-> "none"]
    /\ pc = "sort"

InitExport ==
    /\ KitCall
    /\ ParserIdle
    /\ AudioIdle
    /\ AppIdle
    /\ BrowseIdle
    /\ PlayerIdle
    /\ DecodeIdle

\* Line 471: the sorted copy of the items.
SortItems ==
    /\ pc = "sort"
    /\ itemsSorted' = SortByNote(items)
    /\ idx' = 1
    /\ pc' = "render"
    /\ UNCHANGED <<items, options, rendered, notes, frameLengths, totalFrames, regions,
                   built, result>>
    /\ UNCHANGED outsideExport

\* Lines 477-486: one turn of the loop, for a file that decodes.
RenderItem ==
    /\ pc = "render"
    /\ idx <= Len(itemsSorted)
    /\ decodeToAudioBuffer(itemsSorted[idx].file).ok
    /\ LET it == itemsSorted[idx]
           ch == Render(it.file, options)
       IN  IF ch.length <= 0
           THEN UNCHANGED <<rendered, notes, frameLengths, totalFrames>>
           ELSE /\ rendered' = Append(rendered, ch)
                /\ notes' = Append(notes, it.note)
                /\ frameLengths' = Append(frameLengths, ch.length)
                /\ totalFrames' = totalFrames + ch.length
    /\ idx' = idx + 1
    /\ UNCHANGED <<items, options, itemsSorted, regions, built, result, pc>>
    /\ UNCHANGED outsideExport

\* A variant that skips an item whose decoding fails and goes on.
RenderThrows_SkipsItem ==
    /\ pc = "render"
    /\ idx <= Len(itemsSorted)
    /\ ~decodeToAudioBuffer(itemsSorted[idx].file).ok
    /\ idx' = idx + 1
    /\ UNCHANGED <<items, options, itemsSorted, rendered, notes, frameLengths,
                   totalFrames, regions, built, result, pc>>
    /\ UNCHANGED outsideExport

\* Line 478: decodeToAudioBuffer rejects and the export rejects with its error.
RenderThrows ==
    /\ pc = "render"
    /\ idx <= Len(itemsSorted)
    /\ ~decodeToAudioBuffer(itemsSorted[idx].file).ok
    /\ result' = [ok |-> FALSE, error |-> decodeToAudioBuffer(itemsSorted[idx].file).error]
    /\ pc' = "rejected"
    /\ UNCHANGED <<items, options, itemsSorted, idx, rendered, notes, frameLengths,
                   totalFrames, regions, built>>
    /\ UNCHANGED outsideExport

\* Lines 488-522: the PCM, the regions, the chunks and the file.
Assemble ==
    /\ pc = "render"
    /\ idx > Len(itemsSorted)
    /\ LET pcm == KitPcm(rendered, options)
           rs == buildAcDryRegions(notes, frameLengths)
           c == [fmt |-> buildFmtChunkPcm(options.channels, options.sampleRate, 16),
                 list |-> buildListChunkTnge(rs),
                 smpl |-> buildSmplChunk(options.sampleRate),
                 data |-> buildDataChunk(pcm)]
       IN  /\ regions' = rs
           /\ built' = c
           /\ result' = [ok |-> TRUE, wavBytes |-> KitBytes(c),
                         durationSec |-> Frac(totalFrames, options.sampleRate)]
    /\ pc' = "done"
    /\ UNCHANGED <<items, options, itemsSorted, idx, rendered, notes, frameLengths, totalFrames>>
    /\ UNCHANGED outsideExport

\* The exported bytes are read back with readWavInfo.
ReadBack ==
    /\ pc = "done"
    /\ info' = readWavInfo(result.wavBytes)
    /\ pc' = "read"
    /\ UNCHANGED <<made, view, offset, channels, sampleRate, bitsPerSample, dataBytes, ppc>>
    /\ UNCHANGED <<items, options, itemsSorted, idx, rendered, notes, frameLengths,
                   totalFrames, regions, built, result>>
    /\ UNCHANGED <<audioVars, appVars, browseVars, playerVars, decodeVars>>

NextExport == SortItems \/ RenderItem \/ RenderThrows \/ Assemble \/ ReadBack

SpecExport == InitExport /\ [][NextExport]_vars


-----------------------------------------------------------------------------
(* Claims about the kit export, under SpecExport. *)

\* The export has returned a kit.
Exported == pc \in {"done", "read"}

FrameCountOf(j) == Render(itemsSorted[j].file, options).length

\* The indices below n of itemsSorted whose file renders to at least one frame,
\* ascending.
PositiveIdxBefore(n) ==
    SelectSeq([j \in 1..(n - 1) |-> j], LAMBDA j : FrameCountOf(j) > 0)

PositiveIdx == PositiveIdxBefore(Len(itemsSorted) + 1)

\* C3: in every kit the regions tile the frame stream: the first starts at 0,
\* each later one starts where the previous one ends, each is as long as its
\* item's frame count, the last ends at totalFrames, and the duration reported is
\* totalFrames / sampleRate; 22050 and 11025 frames at notes 60 and 67 and
\* 22050 Hz give [0, 22050], [22050, 33075] and 3/2 s.
C3_RegionsTileFrames ==
    /\ Exported =>
         LET pos == PositiveIdx
         IN  /\ Len(regions) = Len(pos)
             /\ \A k \in 1..Len(regions) :
                   /\ regions[k].sample_start = (IF k = 1 THEN 0 ELSE regions[k - 1].sample_end)
                   /\ regions[k].sample_end - regions[k].sample_start = FrameCountOf(pos[k])
             /\ (IF regions = <<>> THEN 0 ELSE regions[Len(regions)].sample_end) = totalFrames
             /\ totalFrames = SumSeq([k \in 1..Len(pos) |-> FrameCountOf(pos[k])])
             /\ result.durationSec[1] * options.sampleRate = result.durationSec[2] * totalFrames
    /\ LET rs == buildAcDryRegions(<<60, 67>>, <<22050, 11025>>)
       IN  /\ <<rs[1].sample_start, rs[1].sample_end>> = <<0, 22050>>
           /\ <<rs[2].sample_start, rs[2].sample_end>> = <<22050, 33075>>
           /\ Frac(rs[2].sample_end, 22050) = <<3, 2>>

C3_Witness ==
    /\ pc = "done" /\ Len(regions) = 3
    /\ regions[2].sample_start > 0 /\ regions[3].sample_end = totalFrames

\* C4 as stated: an item that renders to no frame gives no region, and the key
\* ranges of the regions are the midpoints of the full sorted note list, the
\* dropped notes included.
C4_DroppedNoteKeepsBoundaries ==
    Exported =>
        LET pos == PositiveIdx
        IN
        /\ Len(regions) = Len(pos)
        /\ \A k \in 1..Len(pos) :
              LET j == pos[k]
              IN  /\ regions[k].sound_rootnote = itemsSorted[j].note
                  /\ regions[k].sample_lokey =
                       (IF j = 1 THEN 0
                        ELSE (itemsSorted[j - 1].note + itemsSorted[j].note + 1) \div 2)
                  /\ regions[k].sample_hikey =
                       (IF j = Len(itemsSorted) THEN 127
                        ELSE (itemsSorted[j].note + itemsSorted[j + 1].note + 1) \div 2)

\* What the code does instead: the dropped notes take no part, the boundaries are
\* the midpoints of the notes that are left.
C4_BoundariesOfKeptNotes ==
    Exported =>
        LET pos == PositiveIdx
        IN
        /\ Len(regions) = Len(pos)
        /\ \A k \in 1..Len(pos) :
              /\ regions[k].sound_rootnote = itemsSorted[pos[k]].note
              /\ regions[k].sample_lokey =
                   (IF k = 1 THEN 0
                    ELSE (itemsSorted[pos[k - 1]].note + itemsSorted[pos[k]].note + 1) \div 2)
              /\ regions[k].sample_hikey =
                   (IF k = Len(pos) THEN 127
                    ELSE (itemsSorted[pos[k]].note + itemsSorted[pos[k + 1]].note + 1) \div 2)

C4_Witness ==
    /\ pc = "done" /\ Len(itemsSorted) = 3 /\ PositiveIdx = <<1, 3>>
    /\ <<itemsSorted[1].note, itemsSorted[2].note, itemsSorted[3].note>> = <<60, 64, 67>>


\* The permutations of a sequence.
PermutationsOf(s) ==
    {[j \in 1..Len(s) |-> s[f[j]]] : f \in {g \in [1..Len(s) -> 1..Len(s)] :
                                              \A a, b \in 1..Len(s) : a # b => g[a] # g[b]}}

NotesOf(its) == [j \in 1..Len(its) |-> its[j].note]

\* The data chunk's payload as the export wrote it.
DataPayload == SubSeq(built.data, 9, Len(built.data))

\* C5: PCM and regions come in ascending note order whatever the input order:
\* the export works through a stable ascending sort of its items, one item after
\* the other in that order; the data payload is the items' PCM in that order; and
\* every permutation of items with distinct notes gives the same bytes.
C5_OrderIsNoteOrder ==
    /\ pc \in {"render", "done", "read"} =>
         /\ Len(itemsSorted) = Len(items)
         /\ Ascending(NotesOf(itemsSorted))
         /\ \A n \in ExportNotes :
               SelectSeq(itemsSorted, LAMBDA it : it.note = n)
                 = SelectSeq(items, LAMBDA it : it.note = n)
         /\ LET done == PositiveIdxBefore(idx)
            IN  /\ notes = [k \in 1..Len(done) |-> itemsSorted[done[k]].note]
                /\ rendered = [k \in 1..Len(done) |-> Render(itemsSorted[done[k]].file, options)]
         /\ Ascending(notes)
    /\ Exported =>
         /\ LET pos == PositiveIdx
            IN  /\ DataPayload =
                     Flatten([k \in 1..Len(pos) |->
                         Int16Bytes(interleavePcm16(Render(itemsSorted[pos[k]].file, options),
                                                    options.channels))])
                /\ \A k \in 1..Len(regions) :
                      regions[k].sound_rootnote = itemsSorted[pos[k]].note
         /\ Distinct(NotesOf(items)) =>
               \A p \in PermutationsOf(items) :
                   exportAcDryKitWavPcm16(p, options) = result

C5_Witness ==
    /\ pc = "done" /\ NotesOf(items) = <<67, 60, 64>>
    /\ items[1].file = "hi" /\ items[2].file = "stereo" /\ items[3].file = "stereo"
    /\ NotesOf(itemsSorted) = <<60, 64, 67>>

\* The declared size of a serialized chunk.
SizeField(c) == getUint32(c, 4)

\* The length of the JSON text in a LIST chunk, its terminating NUL included:
\* the text starts at offset 20 and its NUL is the first zero byte, the only one
\* that follows a byte that is not zero.
JsonLenIn(list) ==
    (CHOOSE q \in 22..Len(list) : list[q] = 0 /\ list[q - 1] # 0) - 20

\* The payload lengths of the four chunks before any padding, the JSON text
\* being jsonLen bytes long.
UnpaddedLens(jsonLen) ==
    [fmt |-> 16, list |-> 4 + 4 + 4 + jsonLen, smpl |-> 36,
     data |-> totalFrames * options.channels * 2]

\* C6 as stated: each chunk's size field is its unpadded payload length, and one
\* zero pad byte follows the payload exactly when that length is odd.
C6_SizeExcludesPad ==
    Exported =>
        LET unpadded == UnpaddedLens(JsonLenIn(built.list))
        IN  \A f \in {"fmt", "list", "smpl", "data"} :
                /\ SizeField(built[f]) = unpadded[f]
                /\ Len(built[f]) = 8 + unpadded[f] + (unpadded[f] % 2)
                /\ unpadded[f] % 2 = 1 => built[f][Len(built[f])] = 0

\* C6 amended: every chunk is serialized with an even payload and a size field
\* equal to the payload as written.  fmt (16), smpl (36) and data (2 bytes per
\* sample) are never padded.  In the LIST chunk the TNGE length field is the
\* unpadded JSON length; when it is odd exactly one zero byte follows the JSON, and
\* the LIST size field counts that byte.
C6_ListSizeCountsPad ==
    Exported =>
        LET jsonLen == JsonLenIn(built.list)
            unpadded == UnpaddedLens(jsonLen)
        IN  /\ \A f \in {"fmt", "list", "smpl", "data"} :
                  /\ Len(built[f]) = 8 + SizeField(built[f])
                  /\ SizeField(built[f]) % 2 = 0
            /\ \A f \in {"fmt", "smpl", "data"} : SizeField(built[f]) = unpadded[f]
            /\ getUint32(built.list, 16) = jsonLen
            /\ SizeField(built.list) = unpadded.list + (unpadded.list % 2)
            /\ unpadded.list % 2 = 1 => built.list[Len(built.list)] = 0

C6_Witness ==
    /\ pc = "done" /\ Len(regions) = 3
    /\ JsonLenIn(built.list) % 2 = 1
    /\ SizeField(built.list) = 4 + 4 + 4 + JsonLenIn(built.list) + 1

\* C7: the kit is 'RIFF', the size, 'WAVE', then the fmt chunk (24 bytes), the
\* LIST chunk, the smpl chunk (44 bytes) and the data chunk, end to end up to the
\* last byte; the RIFF size is the file length minus 8, that is 4 plus the
\* lengths of the four chunks as serialized.
C7_KitLayout ==
    Exported =>
        LET w == result.wavBytes
            listAt == 12 + 24
            smplAt == listAt + 8 + getUint32(w, listAt + 4)
            dataAt == smplAt + 44
        IN  /\ readAscii4(w, 0) = TagRIFF
            /\ getUint32(w, 4) = Len(w) - 8
            /\ getUint32(w, 4) = 4 + Len(built.fmt) + Len(built.list) + Len(built.smpl)
                                   + Len(built.data)
            /\ readAscii4(w, 8) = TagWAVE
            /\ readAscii4(w, 12) = TagFmt /\ getUint32(w, 16) = 16
            /\ readAscii4(w, listAt) = TagLIST
            /\ readAscii4(w, smplAt) = TagSmpl /\ getUint32(w, smplAt + 4) = 36
            /\ readAscii4(w, dataAt) = TagData
            /\ dataAt + 8 + getUint32(w, dataAt + 4) = Len(w)
            /\ SubSeq(w, 13, 36) = built.fmt
            /\ SubSeq(w, listAt + 1, smplAt) = built.list
            /\ SubSeq(w, smplAt + 1, dataAt) = built.smpl
            /\ SubSeq(w, dataAt + 1, Len(w)) = built.data

C7_Witness ==
    pc = "done" /\ Len(regions) = 2 /\ Len(result.wavBytes) - 8 = getUint32(result.wavBytes, 4)

\* C8: a kit made from at least one item with frames reads back with
\* readWavInfo: the call succeeds with the channels and sample rate of the
\* options, 16 bits, dataBytes = totalFrames * channels * 2 and the duration the
\* export reported.
C8_RoundTrip ==
    (pc = "read" /\ \E j \in 1..Len(items) : Render(items[j].file, options).length > 0)
        => /\ info.ok
           /\ info.channels = options.channels
           /\ info.sampleRate = options.sampleRate
           /\ info.bitsPerSample = 16
           /\ info.dataBytes = totalFrames * options.channels * 2
           /\ info.durationSec = result.durationSec

C8_Witness ==
    /\ pc = "read" /\ info.ok /\ totalFrames = 5 /\ options.channels = 2
    /\ options.sampleRate = 44100 /\ info.dataBytes = 20


-----------------------------------------------------------------------------
(* Claims about readWavInfo, under SpecParser. *)

\* The call is over.
Parsed == ppc \in {"done", "failed"}

\* C9: a buffer shorter than 12 bytes, or whose first four bytes are not 'RIFF',
\* or whose bytes 8..11 are not 'WAVE', never gets as far as the chunk scan and
\* never yields a WavInfo, whatever follows the header: the call throws.
C9_BadHeaderThrows ==
    (\/ Len(view) < 12
     \/ SubSeq(view, 1, 4) # <<82, 73, 70, 70>>
     \/ SubSeq(view, 9, 12) # <<87, 65, 86, 69>>)
        => /\ ppc \in {"start", "failed"}
           /\ ~info.ok
           /\ Parsed => info.error \in {"tooSmall", "badHeader"}

C9_Witness ==
    /\ ppc = "failed" /\ Len(view) >= 12 /\ SubSeq(view, 9, 12) # TagWAVE
    /\ Len(made.chunks) = 2 /\ made.chunks[1].channels = 1 /\ made.chunks[2].size = 3

\* The index of the first chunk of the buffer whose declared size runs past the
\* end of the buffer (0 when there is none).
FirstTruncated ==
    LET bad == {j \in 1..Len(made.chunks) : made.chunks[j].size > Len(made.chunks[j].payload)}
    IN  IF bad = {} THEN 0 ELSE CHOOSE j \in bad : \A k \in bad : j <= k

IsFmt(c) == c.id = TagFmt /\ c.size >= 16
IsData(c) == c.id = TagData

\* The last fmt chunk of at least 16 bytes, and the last data chunk, among cs
\* (cs has one).
LastFmt(cs) ==
    cs[CHOOSE j \in 1..Len(cs) : IsFmt(cs[j]) /\ \A k \in (j + 1)..Len(cs) : ~IsFmt(cs[k])]
LastData(cs) ==
    cs[CHOOSE j \in 1..Len(cs) : IsData(cs[j]) /\ \A k \in (j + 1)..Len(cs) : ~IsData(cs[k])]

\* Whether the chunks cs hold a valid fmt chunk and a non-empty data chunk (the
\* last of each kind counts).
FoundIn(cs) ==
    /\ \E j \in 1..Len(cs) : IsFmt(cs[j])
    /\ \E j \in 1..Len(cs) : IsData(cs[j])
    /\ LastFmt(cs).channels # 0
    /\ LastFmt(cs).sampleRate # 0
    /\ LastFmt(cs).bitsPerSample # 0
    /\ LastData(cs).size # 0

\* C10: when the scan meets a chunk whose declared size runs past the end of the
\* buffer, the call does not fail for it: it succeeds exactly when the chunks
\* before it hold a valid fmt chunk and a non-empty data chunk, it returns their
\* fields, and neither the truncated chunk nor anything after it counts.
C10_TruncatedChunkStopsScan ==
    (Parsed /\ made.keep < 0 /\ made.hdr = TagRIFF \o U32LE(0) \o TagWAVE /\ FirstTruncated # 0)
        => LET before == SubSeq(made.chunks, 1, FirstTruncated - 1)
           IN  /\ info.ok <=> FoundIn(before)
               /\ ~info.ok => info.error = "missingFmtOrData"
               /\ info.ok =>
                    /\ info.channels = LastFmt(before).channels
                    /\ info.sampleRate = LastFmt(before).sampleRate
                    /\ info.bitsPerSample = LastFmt(before).bitsPerSample
                    /\ info.dataBytes = LastData(before).size

C10_Witness ==
    /\ ppc = "done" /\ FirstTruncated = 3
    /\ made.chunks[3].id = TagData /\ made.chunks[3].size > 4000
    /\ info.dataBytes = 3

\* C11: readWavInfo returns a WavInfo exactly when the channels, the sample
\* rate, the bits per sample and the data length it scanned are all nonzero (the
\* byte rate is then positive), and throws otherwise; a WavInfo it returns holds
\* these four values and durationSec * (sampleRate * channels * bitsPerSample / 8)
\* = dataBytes (durationSec is the fraction n/d: n * rate * 8 = dataBytes * 8 * d
\* with the rate taken over 8).
C11_WavInfoIffAllNonzero ==
    Parsed =>
        LET byteRate8 == sampleRate * channels * bitsPerSample
        IN  /\ info.ok <=> /\ channels # 0 /\ sampleRate # 0
                           /\ bitsPerSample # 0 /\ dataBytes # 0
                           /\ byteRate8 > 0
            /\ info.ok <=> ppc = "done"
            /\ info.ok =>
                 /\ info.channels = channels /\ info.channels > 0
                 /\ info.sampleRate = sampleRate /\ info.sampleRate > 0
                 /\ info.bitsPerSample = bitsPerSample /\ info.bitsPerSample > 0
                 /\ info.dataBytes = dataBytes /\ info.dataBytes > 0
                 /\ info.durationSec[2] > 0
                 /\ info.durationSec[1] * byteRate8 = dataBytes * 8 * info.durationSec[2]
            /\ (~info.ok /\ HeaderCheck(view) = "ok") => info.error = "missingFmtOrData"

C11_Witness ==
    /\ ppc = "done" /\ info.ok /\ info.channels = 2 /\ info.sampleRate = 44100
    /\ info.bitsPerSample = 24 /\ info.dataBytes = 3 /\ info.durationSec = <<1, 88200>>

\* A buffer as the claim describes it: the RIFF/WAVE header, then whole chunks
\* (each followed by its pad byte when its size is odd), of which exactly one is
\* a fmt chunk, of at least 16 bytes and with nonzero fields, and exactly one a
\* data chunk, not empty.
WellFormed ==
    /\ made.keep < 0
    /\ made.hdr = TagRIFF \o U32LE(0) \o TagWAVE
    /\ made.tail = <<>>
    /\ \A j \in 1..Len(made.chunks) :
            Len(made.chunks[j].payload) = made.chunks[j].size + (made.chunks[j].size % 2)
    /\ Cardinality({j \in 1..Len(made.chunks) : made.chunks[j].id = TagFmt}) = 1
    /\ Cardinality({j \in 1..Len(made.chunks) : made.chunks[j].id = TagData}) = 1
    /\ \A j \in 1..Len(made.chunks) :
            /\ made.chunks[j].id = TagFmt =>
                    /\ made.chunks[j].size >= 16 /\ made.chunks[j].channels # 0
                    /\ made.chunks[j].sampleRate # 0 /\ made.chunks[j].bitsPerSample # 0
            /\ made.chunks[j].id = TagData => made.chunks[j].size # 0

\* C12: on a well-formed buffer readWavInfo succeeds and returns the channels,
\* the sample rate and the bits per sample written in the fmt chunk and the
\* declared size of the data chunk, wherever the other chunks stand.
C12_WellFormedRecovered ==
    (Parsed /\ WellFormed) =>
        /\ ppc = "done" /\ info.ok
        /\ \A j \in 1..Len(made.chunks) :
              /\ made.chunks[j].id = TagFmt =>
                    /\ info.channels = made.chunks[j].channels
                    /\ info.sampleRate = made.chunks[j].sampleRate
                    /\ info.bitsPerSample = made.chunks[j].bitsPerSample
              /\ made.chunks[j].id = TagData => info.dataBytes = made.chunks[j].size
        /\ info.durationSec = Frac(info.dataBytes * 8,
                                   info.sampleRate * info.channels * info.bitsPerSample)

C12_Witness ==
    /\ ppc = "done" /\ WellFormed /\ Len(made.chunks) = 3
    /\ made.chunks[1].id = TagLIST /\ made.chunks[2].id = TagData
    /\ made.chunks[3].id = TagFmt /\ info.sampleRate = 44100 /\ info.dataBytes = 3


-----------------------------------------------------------------------------
(* SpecAudio: one call of clampInt16, of toTargetChannels or of resample,  *)
(* on generated arguments.                                                 *)

MaxNumerator == 4       \* largest |numerator| of a generated sample value
MaxSamples == 4         \* most samples (channels * frames) in a generated buffer
MaxChannels == 4        \* most channels in a generated buffer

\* The arguments of clampInt16: fractions within and beyond full scale, with
\* denominators that make the scaled value fall between integers, and the three
\* non-finite values.
SampleDenominators == {1, 2, 3, 4, 7, 32767, 32768, 65536}
Samples ==
    {<<n, d>> : n \in (-MaxNumerator)..MaxNumerator, d \in SampleDenominators}
        \cup {<<0, 0>>, <<1, 0>>, <<-1, 0>>}

\* The sample values of the generated buffers.
BufferValues == {<<-1, 1>>, <<1, 4>>, <<1, 1>>}

SourceRates == {22050, 44100}
TargetRates == {8000, 22050, 44100}

\* The generated buffers: every channel count, every length and every content
\* with at most MaxSamples samples.
SourceBuffers ==
    UNION { UNION { { AudioBuffer(r, c, len, data) :
                        r \in SourceRates, data \in [1..c -> [1..len -> BufferValues]] }
                    : len \in 0..(MaxSamples \div c) }
            : c \in 1..MaxChannels }

InitAudio ==
    /\ \/ /\ sample \in Samples
          /\ source = AudioBuffer(0, 0, 0, <<>>)
          /\ targetChannels = 1 /\ targetRate = 0
       \/ /\ sample = <<0, 1>>
          /\ source \in SourceBuffers
          /\ targetChannels \in {1, 2}
          /\ targetRate \in TargetRates
    /\ quantized = 0
    /\ output = AudioBuffer(0, 0, 0, <<>>)
    /\ apc = "start"
    /\ ParserIdle
    /\ ExportIdle
    /\ AppIdle
    /\ BrowseIdle
    /\ PlayerIdle
    /\ DecodeIdle

\* clampInt16(sample).
Quantize ==
    /\ apc = "start"
    /\ source.numberOfChannels = 0
    /\ quantized' = clampInt16(sample)
    /\ apc' = "quantized"
    /\ UNCHANGED <<sample, source, targetChannels, targetRate, output>>
    /\ UNCHANGED outsideAudio

\* toTargetChannels(source, targetChannels).
Remix ==
    /\ apc = "start"
    /\ source.numberOfChannels > 0
    /\ output' = toTargetChannels(source, targetChannels)
    /\ apc' = "remixed"
    /\ UNCHANGED <<sample, quantized, source, targetChannels, targetRate>>
    /\ UNCHANGED outsideAudio

\* resample(source, targetRate).
Resample ==
    /\ apc = "start"
    /\ source.numberOfChannels > 0
    /\ output' = resample(source, targetRate)
    /\ apc' = "resampled"
    /\ UNCHANGED <<sample, quantized, source, targetChannels, targetRate>>
    /\ UNCHANGED outsideAudio

NextAudio == Quantize \/ Remix \/ Resample

SpecAudio == InitAudio /\ [][NextAudio]_vars

\* C13: clampInt16 returns trunc(c * 32768) for a negative and trunc(c * 32767)
\* for a non-negative input, c being the input clamped to [-1, 1] and trunc
\* rounding toward zero; the result always lies in -32768..32767 (0 for NaN);
\* 1 gives 32767, -1 gives -32768, 0 gives 0, 2 gives 32767 and -2 gives -32768.
C13_Quantize ==
    apc = "quantized" =>
        /\ quantized \in -32768..32767
        /\ sample[2] > 0 =>
              LET n == sample[1]
                  d == sample[2]
                  \* the clamped input is c / d
                  c == IF n > d THEN d ELSE IF n < -d THEN -d ELSE n
              IN  /\ c < 0 => /\ quantized <= 0
                              /\ (-quantized) * d <= (-c) * 32768
                              /\ (-c) * 32768 < (1 - quantized) * d
                  /\ c >= 0 => /\ quantized >= 0
                               /\ quantized * d <= c * 32767
                               /\ c * 32767 < (quantized + 1) * d
        /\ sample = <<1, 1>> => quantized = 32767
        /\ sample = <<-1, 1>> => quantized = -32768
        /\ sample = <<0, 1>> => quantized = 0
        /\ sample = <<2, 1>> => quantized = 32767
        /\ sample = <<-2, 1>> => quantized = -32768
        /\ sample = <<1, 0>> => quantized = 32767
        /\ sample = <<-1, 0>> => quantized = -32768
        /\ sample = <<0, 0>> => quantized = 0

C13_Witness == apc = "quantized" /\ sample = <<-1, 65536>> /\ quantized = 0

\* Whether the fraction x is the arithmetic mean of sample i over all the
\* channels of data.
IsMeanAt(x, data, i) ==
    LET N == Len(data)
        Den[c \in 0..N] == IF c = 0 THEN 1 ELSE Den[c - 1] * data[c][i][2]
        Num[c \in 0..N] == IF c = 0 THEN 0
                           ELSE Num[c - 1] * data[c][i][2] + data[c][i][1] * Den[c - 1]
    IN  x[2] > 0 /\ x[1] * N * Den[N] = x[2] * Num[N]

\* C19: toTargetChannels returns a buffer of exactly the target channel count
\* with the frame count of its input; for target 1 every output sample is the
\* mean of all the source channels at that index; for target 2 a 1-channel
\* source gives two channels equal to it, and a source of 2 or more channels
\* gives its channels 0 and 1, whatever the further channels hold.
C19_Remix ==
    apc = "remixed" =>
        /\ output.numberOfChannels = targetChannels
        /\ Len(output.channelData) = targetChannels
        /\ output.length = source.length
        /\ \A c \in 1..targetChannels : Len(output.channelData[c]) = source.length
        /\ targetChannels = 1 =>
              \A i \in 1..source.length :
                  IsMeanAt(output.channelData[1][i], source.channelData, i)
        /\ (targetChannels = 2 /\ source.numberOfChannels = 1) =>
              /\ output.channelData[1] = source.channelData[1]
              /\ output.channelData[2] = source.channelData[1]
        /\ (targetChannels = 2 /\ source.numberOfChannels >= 2) =>
              /\ output.channelData[1] = source.channelData[1]
              /\ output.channelData[2] = source.channelData[2]

C19_Witness ==
    /\ apc = "remixed" /\ targetChannels = 1 /\ source.numberOfChannels = 4
    /\ source.length = 1 /\ output.channelData = << <<<<1, 8>>>> >>

\* Whether r = Math.round(len * rate / fromRate): r - 1/2 <= len * rate / fromRate
\* < r + 1/2.
IsRounded(r, len, fromRate, rate) ==
    /\ (2 * r - 1) * fromRate <= 2 * len * rate
    /\ 2 * len * rate < (2 * r + 1) * fromRate

\* C20 as stated: when the rates differ the frame count of the result is
\* round(duration * targetRate), for every source duration, zero included.
C20_FrameCountIsRounded ==
    apc = "resampled" =>
        /\ source.sampleRate = targetRate => output = source
        /\ source.sampleRate # targetRate =>
              /\ output.numberOfChannels = source.numberOfChannels
              /\ output.sampleRate = targetRate
              /\ IsRounded(output.length, source.length, source.sampleRate, targetRate)

\* C20, amended: resample returns its input unchanged when the rates are equal;
\* otherwise the result has the channel count of the input, the target rate,
\* and round(duration * targetRate) frames when that is at least 1, and 1 frame
\* when it is 0 (a source without frames, or one shorter than half a frame at
\* the target rate).
C20_FrameCountAtLeastOne ==
    apc = "resampled" =>
        /\ source.sampleRate = targetRate => output = source
        /\ source.sampleRate # targetRate =>
              /\ output.numberOfChannels = source.numberOfChannels
              /\ Len(output.channelData) = source.numberOfChannels
              /\ output.sampleRate = targetRate
              /\ output.length >= 1
              /\ \A c \in 1..source.numberOfChannels :
                    Len(output.channelData[c]) = output.length
              /\ \/ IsRounded(output.length, source.length, source.sampleRate, targetRate)
                 \/ /\ output.length = 1
                    /\ IsRounded(0, source.length, source.sampleRate, targetRate)

C20_Witness ==
    /\ apc = "resampled" /\ source.sampleRate = 44100 /\ targetRate = 8000
    /\ source.length = 2 /\ source.numberOfChannels = 2 /\ output.length = 1


-----------------------------------------------------------------------------
(* SpecConcat: one call of exportConcatenatedWavPcm16; `items` holds the   *)
(* files in the caller's order.                                            *)

\* A variant whose RIFF size is the size of the whole file.
WavHeader44_SizeIsFileSize(opts, nbytes) ==
    LET blockAlign == opts.channels * 2
        byteRate == opts.sampleRate * blockAlign
    IN  TagRIFF \o U32LE(44 + nbytes) \o TagWAVE
          \o TagFmt \o U32LE(16) \o U16LE(1) \o U16LE(opts.channels)
          \o U32LE(opts.sampleRate) \o U32LE(byteRate) \o U16LE(blockAlign) \o U16LE(16)
          \o TagData \o U32LE(nbytes)

\* Lines 440-457: the 44 bytes written before the PCM.
WavHeader44(opts, nbytes) ==
    LET blockAlign == opts.channels * 2
        byteRate == opts.sampleRate * blockAlign
        wavSize == 44 + nbytes
    IN  TagRIFF \o U32LE(wavSize - 8) \o TagWAVE
          \o TagFmt \o U32LE(16) \o U16LE(1) \o U16LE(opts.channels)
          \o U32LE(opts.sampleRate) \o U32LE(byteRate) \o U16LE(blockAlign) \o U16LE(16)
          \o TagData \o U32LE(nbytes)

\* A call of exportConcatenatedWavPcm16 on generated arguments.
ConcatCall ==
    /\ items \in SeqsUpTo(FileNames, MaxItems)
    /\ options \in ExportOptions
    /\ itemsSorted = <<>> /\ idx = 1 /\ rendered = <<>> /\ notes = <<>> /\ frameLengths = <<>>
    /\ totalFrames = 0 /\ regions = <<>> /\ built = <<>>
    /\ result = [ok |-> FALSE, error |-> "none"]
    /\ pc = "concat"

InitConcat ==
    /\ ConcatCall
    /\ ParserIdle
    /\ AudioIdle
    /\ AppIdle
    /\ BrowseIdle
    /\ PlayerIdle
    /\ DecodeIdle

\* Lines 423-429: one turn of the loop, for a file that decodes.
ConcatRenderItem ==
    /\ pc = "concat"
    /\ idx <= Len(items)
    /\ decodeToAudioBuffer(items[idx]).ok
    /\ LET ch == Render(items[idx], options)
       IN  /\ rendered' = Append(rendered, ch)
           /\ totalFrames' = totalFrames + ch.length
    /\ idx' = idx + 1
    /\ UNCHANGED <<items, options, itemsSorted, notes, frameLengths, regions, built, result, pc>>
    /\ UNCHANGED outsideExport

\* Line 424: decodeToAudioBuffer rejects and the export rejects with its error.
ConcatRenderThrows ==
    /\ pc = "concat"
    /\ idx <= Len(items)
    /\ ~decodeToAudioBuffer(items[idx]).ok
    /\ result' = [ok |-> FALSE, error |-> decodeToAudioBuffer(items[idx]).error]
    /\ pc' = "rejected"
    /\ UNCHANGED <<items, options, itemsSorted, idx, rendered, notes, frameLengths,
                   totalFrames, regions, built>>
    /\ UNCHANGED outsideExport

\* Lines 431-461: the PCM, the header and the file.
ConcatAssemble ==
    /\ pc = "concat"
    /\ idx > Len(items)
    /\ LET pcm == KitPcm(rendered, options)
           pcmBytes == Int16Bytes(pcm)
       IN  result' = [ok |-> TRUE,
                      wavBytes |-> WavHeader44(options, Len(pcmBytes)) \o pcmBytes,
                      durationSec |-> Frac(totalFrames, options.sampleRate)]
    /\ pc' = "done"
    /\ UNCHANGED <<items, options, itemsSorted, idx, rendered, notes, frameLengths,
                   totalFrames, regions, built>>
    /\ UNCHANGED outsideExport

NextConcat == ConcatRenderItem \/ ConcatRenderThrows \/ ConcatAssemble

SpecConcat == InitConcat /\ [][NextConcat]_vars

\* The frame count the file of item j renders to.
ConcatFrames(j) == Render(items[j], options).length

\* C15: exportConcatenatedWavPcm16 renders every item, in the caller's order,
\* and drops none; the file is a 44-byte header followed by the items' PCM in
\* that order: 'RIFF', size 36 + data size, 'WAVE', 'fmt ' at offset 12 (16
\* bytes), 'data' at offset 36 with size totalFrames * channels * 2, then the
\* PCM to the end of the file (no LIST or smpl chunk); the reported duration is
\* totalFrames / sampleRate.
C15_ConcatLayout ==
    /\ pc \in {"concat", "done"} =>
          rendered = [j \in 1..(idx - 1) |-> Render(items[j], options)]
    /\ pc = "done" =>
          LET w == result.wavBytes
              total == SumSeq([j \in 1..Len(items) |-> ConcatFrames(j)])
              size == total * options.channels * 2
          IN  /\ result.ok
              /\ Len(rendered) = Len(items)
              /\ totalFrames = total
              /\ Len(w) = 44 + size
              /\ SubSeq(w, 1, 4) = <<82, 73, 70, 70>>
              /\ getUint32(w, 4) = 36 + size
              /\ SubSeq(w, 9, 12) = <<87, 65, 86, 69>>
              /\ SubSeq(w, 13, 16) = <<102, 109, 116, 32>>
              /\ getUint32(w, 16) = 16
              /\ SubSeq(w, 37, 40) = <<100, 97, 116, 97>>
              /\ getUint32(w, 40) = size
              /\ SubSeq(w, 45, Len(w)) =
                    Flatten([j \in 1..Len(items) |->
                        Int16Bytes(interleavePcm16(Render(items[j], options),
                                                   options.channels))])
              /\ result.durationSec = Frac(total, options.sampleRate)

C15_Witness ==
    /\ pc = "done" /\ items = <<"hi", "empty", "stereo">>
    /\ options = [sampleRate |-> 22050, channels |-> 2]
    /\ totalFrames = 4 /\ Len(result.wavBytes) = 60


-----------------------------------------------------------------------------
(* SpecOnExport: onExport from the call of the encoder on: the call of     *)
(* exportAcDryKitWavPcm16 (App.tsx line 707) or exportConcatenatedWavPcm16 *)
(* (line 181) on generated arguments, then what onExport does with the     *)
(* outcome.                                                                *)

\* durationSec > MAX_TOTAL_SECONDS + 1e-6 for the fraction x: x - 20 > 1/1000000.
ExceedsLimit(x) == x[1] - 20 * x[2] > x[2] \div 1000000

\* A variant that downloads whatever the duration.
onExportOutcome_NoLimit(res) ==
    IF ~res.ok THEN [error |-> "exportFailed: " \o res.error, download |-> FALSE]
    ELSE [error |-> "null", download |-> TRUE]

\* Lines 711-732, from the outcome of the export call: the error set (or
\* "null") and whether the browser is handed a file.
onExportOutcome(res) ==
    IF ~res.ok THEN [error |-> "exportFailed: " \o res.error, download |-> FALSE]
    ELSE IF ExceedsLimit(res.durationSec)
    THEN [error |-> "exportImpossibleFinalDuration", download |-> FALSE]
    ELSE [error |-> "null", download |-> TRUE]

InitOnExport ==
    /\ KitCall \/ ConcatCall
    /\ ParserIdle
    /\ AudioIdle
    /\ BrowseIdle
    /\ PlayerIdle
    /\ DecodeIdle
    \* lines 685-706: the errors are cleared and the status says 'in progress'
    /\ pending = "none" /\ assigned = <<>> /\ error = "null" /\ exportStatus = "inProgress"
    /\ reads = {} /\ plays = {} /\ exports = <<>> /\ downloads = 0

\* Lines 707-729: the export call resolved.
OnExportReturns ==
    /\ pc = "done"
    /\ result.ok
    /\ error' = IF onExportOutcome(result).error = "null" THEN error
                ELSE onExportOutcome(result).error
    /\ downloads' = IF onExportOutcome(result).download THEN downloads + 1 ELSE downloads
    /\ exportStatus' = "null"
    /\ pc' = "settled"
    /\ UNCHANGED <<pending, assigned, reads, plays, exports>>
    /\ UNCHANGED <<items, options, itemsSorted, idx, rendered, notes, frameLengths,
                   totalFrames, regions, built, result>>
    /\ UNCHANGED <<parserVars, audioVars, browseVars, playerVars, decodeVars>>

\* Lines 730-733: the export call rejected.
OnExportCatches ==
    /\ pc = "rejected"
    /\ ~result.ok
    /\ error' = onExportOutcome(result).error
    /\ downloads' = IF onExportOutcome(result).download THEN downloads + 1 ELSE downloads
    /\ exportStatus' = "null"
    /\ pc' = "settled"
    /\ UNCHANGED <<pending, assigned, reads, plays, exports>>
    /\ UNCHANGED <<items, options, itemsSorted, idx, rendered, notes, frameLengths,
                   totalFrames, regions, built, result>>
    /\ UNCHANGED <<parserVars, audioVars, browseVars, playerVars, decodeVars>>

NextOnExport ==
    \/ SortItems \/ RenderItem \/ RenderThrows \/ Assemble
    \/ ConcatRenderItem \/ ConcatRenderThrows \/ ConcatAssemble
    \/ OnExportReturns \/ OnExportCatches

SpecOnExport == InitOnExport /\ [][NextOnExport]_vars

\* The files of the call's items: the call is a kit export (items with notes,
\* sorted first) or a flat export (files only, never sorted).
FilesIn(its) ==
    IF pc = "sort" \/ itemsSorted # <<>>
    THEN {its[j].file : j \in 1..Len(its)}
    ELSE {its[j] : j \in 1..Len(its)}

\* C14: when an item of the call fails to decode, the export rejects with the
\* decoder's error as it is and returns neither bytes nor a duration, no file is
\* assembled, and onExport shows the failure and hands the browser nothing; a
\* call that rejects is a call one of whose items failed.
C14_FailureRejectsWhole ==
    /\ (\E f \in FilesIn(items) : ~decodeToAudioBuffer(f).ok) =>
          /\ pc # "done"
          /\ ~result.ok
          /\ built = <<>>
          /\ downloads = 0
          /\ pc = "settled" =>
                /\ \E f \in FilesIn(items) :
                      error = "exportFailed: " \o decodeToAudioBuffer(f).error
                /\ exportStatus = "null"
    /\ pc = "rejected" =>
          /\ \E f \in FilesIn(items) :
                /\ ~decodeToAudioBuffer(f).ok
                /\ result = [ok |-> FALSE, error |-> decodeToAudioBuffer(f).error]
          /\ DOMAIN result = {"ok", "error"}

C14_Witness ==
    /\ pc = "settled" /\ ~result.ok /\ Len(items) = 3 /\ Len(rendered) = 2
    /\ error = "exportFailed: decode" /\ downloads = 0 /\ itemsSorted # <<>>


-----------------------------------------------------------------------------
(* SpecApp: the App component (App.tsx lines 554-747 and 962-995): its     *)
(* state, the user's clicks and the completions of what they start.  A     *)
(* file is known by its name; what reading, playing and encoding it give   *)
(* is fixed per file.  The export settings keep their defaults.            *)

MaxPads == 2            \* the pads of the model: the first MaxPads of ALLOWED_NOTES
MaxInFlight == 2        \* reads, plays and export calls in flight at once
MaxDownloads == 1       \* downloads, done or still possible

ALLOWED_NOTES == <<60, 62, 64, 65, 67, 69, 71, 72>>

Pads == {ALLOWED_NOTES[k] : k \in 1..Min(MaxPads, Len(ALLOWED_NOTES))}

\* The files of the opened folder: "a" lasts 8 s; "b" has a header that says
\* 12 s and renders to 12.5 s; "bad" has a header that says 8.000001 s and
\* cannot be decoded; "junk" has no RIFF/WAVE header.
Library == {"a", "b", "bad", "junk"}

\* readWavInfo(file): the WavInfo's durationSec, or the error.
HeaderInfo(f) ==
    CASE f = "a" -> [ok |-> TRUE, durationSec |-> <<8, 1>>]
      [] f = "b" -> [ok |-> TRUE, durationSec |-> <<12, 1>>]
      [] f = "bad" -> [ok |-> TRUE, durationSec |-> <<8000001, 1000000>>]
      [] f = "junk" -> [ok |-> FALSE, error |-> "badHeader"]

\* ctx.decodeAudioData on the file: whether it rejects.
DecodeFails(f) == f \in {"bad", "junk"}

\* totalFrames / sampleRate of the file once rendered by the encoder.
RenderedDuration(f) ==
    CASE f = "a" -> <<8, 1>>
      [] f = "b" -> <<25, 2>>

\* The sum of two fractions.
FracAdd(x, y) ==
    LET g == GCD(x[2], y[2])
    IN  Frac(x[1] * (y[2] \div g) + y[1] * (x[2] \div g), (x[2] \div g) * y[2])

\* slot?.durationSec ?? 0
SlotDuration(slots, n) ==
    IF slots[n] = "none" THEN <<0, 1>> ELSE HeaderInfo(slots[n]).durationSec

RECURSIVE SumOver(_, _, _)
\* The sum of dur(slots[n]) over the pads from the k-th on, in ALLOWED_NOTES order.
SumOver(slots, k, rendering) ==
    IF k > Len(ALLOWED_NOTES) THEN <<0, 1>>
    ELSE IF ALLOWED_NOTES[k] \notin Pads \/ slots[ALLOWED_NOTES[k]] = "none"
         THEN SumOver(slots, k + 1, rendering)
         ELSE FracAdd(IF rendering THEN RenderedDuration(slots[ALLOWED_NOTES[k]])
                      ELSE HeaderInfo(slots[ALLOWED_NOTES[k]]).durationSec,
                      SumOver(slots, k + 1, rendering))

\* Lines 580-590.
assignedCount == Cardinality({n \in Pads : assigned[n] # "none"})
totalDurationSec == SumOver(assigned, 1, FALSE)
isOverLimit == ExceedsLimit(totalDurationSec)
canExport == assignedCount > 0 /\ ~isOverLimit

\* What the call exportAcDryKitWavPcm16(items, ...) of line 707 settles to, the
\* items being the assigned pads in ALLOWED_NOTES order: it rejects with the
\* decoder's error when a file cannot be decoded and resolves with
\* totalFrames / sampleRate otherwise.
ExportCall(slots) ==
    IF \E n \in Pads : slots[n] # "none" /\ DecodeFails(slots[n])
    THEN [ok |-> FALSE, error |-> "decode"]
    ELSE [ok |-> TRUE, durationSec |-> SumOver(slots, 1, TRUE)]

InFlight == Cardinality(reads) + Cardinality(plays) + Len(exports)

InitApp ==
    /\ pending = "none"
    /\ assigned = [n \in Pads |-> "none"]
    /\ error = "null"
    /\ exportStatus = "null"
    /\ reads = {} /\ plays = {} /\ exports = <<>> /\ downloads = 0
    /\ ParserIdle
    /\ ExportIdle
    /\ AudioIdle
    /\ BrowseIdle
    /\ PlayerIdle
    /\ DecodeIdle

\* A variant of assignTo without the limit.
assignTo_NoLimit(note) ==
    IF pending = "none"
    THEN /\ error' = "chooseWavFirst"
         /\ UNCHANGED <<pending, assigned>>
    ELSE /\ error' = "null"
         /\ assigned' = [assigned EXCEPT ![note] = pending]
         /\ pending' = "none"

\* Lines 621-640.
assignTo(note) ==
    IF pending = "none"
    THEN /\ error' = "chooseWavFirst"
         /\ UNCHANGED <<pending, assigned>>
    ELSE LET existing == SlotDuration(assigned, note)
             \* baseTotal = totalDurationSec - existing, nextTotal = baseTotal + pending
             nextTotal == FracAdd(FracAdd(totalDurationSec, <<-existing[1], existing[2]>>),
                                  HeaderInfo(pending).durationSec)
         IN  IF ExceedsLimit(nextTotal)
             THEN /\ error' = "limitExceeded"
                  /\ UNCHANGED <<pending, assigned>>
             ELSE /\ error' = "null"
                  /\ assigned' = [assigned EXCEPT ![note] = pending]
                  /\ pending' = "none"

\* Lines 736-740: a click on a file of the browser starts readWavInfo.
ClickFile(f) ==
    /\ f \notin reads => InFlight < MaxInFlight
    /\ error' = "null"
    /\ reads' = reads \cup {f}
    /\ UNCHANGED <<pending, assigned, exportStatus, plays, exports, downloads>>
    /\ UNCHANGED outsideApp

\* Lines 741-746 and 666-669: readWavInfo settled; on success the file becomes
\* the pending one and onPlay starts to play it.
ReadSettles(f) ==
    /\ f \in reads
    /\ reads' = reads \ {f}
    /\ IF HeaderInfo(f).ok
       THEN /\ pending' = f
            /\ error' = "null"
            /\ plays' = plays \cup {f}
       ELSE /\ error' = HeaderInfo(f).error
            /\ UNCHANGED <<pending, plays>>
    /\ UNCHANGED <<assigned, exportStatus, exports, downloads>>
    /\ UNCHANGED outsideApp

\* Lines 671-681: playWavBlob settled (the plays are silent ones).
PlaySettles(f) ==
    /\ f \in plays
    /\ plays' = plays \ {f}
    /\ error' = IF DecodeFails(f) THEN "cannotReadWav: decode" ELSE error
    /\ UNCHANGED <<pending, assigned, exportStatus, reads, exports, downloads>>
    /\ UNCHANGED outsideApp

\* Lines 969-979: a click on the card of a pad, outside its remove button.
ClickNote(note) ==
    /\ IF assigned[note] # "none"
       THEN \* onPlay(slot.file, ..., true)
            /\ assigned[note] \notin plays => InFlight < MaxInFlight
            /\ error' = "null"
            /\ plays' = plays \cup {assigned[note]}
            /\ UNCHANGED <<pending, assigned>>
       ELSE IF pending # "none"
       THEN /\ assignTo(note)
            /\ UNCHANGED plays
       ELSE UNCHANGED <<error, plays, pending, assigned>>
    /\ UNCHANGED <<exportStatus, reads, exports, downloads>>
    /\ UNCHANGED outsideApp

\* Lines 642-646 and 990-995: the remove button of an assigned pad.
ClickRemove(note) ==
    /\ assigned[note] # "none"
    /\ error' = "null"
    /\ assigned' = [assigned EXCEPT ![note] = "none"]
    /\ UNCHANGED <<pending, exportStatus, reads, plays, exports, downloads>>
    /\ UNCHANGED outsideApp

\* Lines 648-664.
resetProject ==
    /\ error' = "null"
    /\ exportStatus' = "null"
    /\ pending' = "none"
    /\ assigned' = [n \in Pads |-> "none"]
    /\ UNCHANGED <<reads, plays, exports, downloads>>
    /\ UNCHANGED outsideApp

\* Lines 684-710: onExport up to the export call.  (The button that calls it is
\* disabled unless canExport; the handler is taken for every call.)
onExport ==
    /\ IF isOverLimit
       THEN /\ error' = "exportImpossibleDuration"
            /\ exportStatus' = "null"
            /\ UNCHANGED exports
       ELSE IF assignedCount = 0
       THEN /\ error' = "exportImpossibleNoSamples"
            /\ exportStatus' = "null"
            /\ UNCHANGED exports
       ELSE /\ InFlight < MaxInFlight
            /\ downloads + Len(exports) < MaxDownloads
            /\ error' = "null"
            /\ exportStatus' = "inProgress"
            /\ exports' = Append(exports, ExportCall(assigned))
    /\ UNCHANGED <<pending, assigned, reads, plays, downloads>>
    /\ UNCHANGED outsideApp

\* Lines 707-733: the k-th export call in flight settled.
ExportSettles(k) ==
    /\ k \in 1..Len(exports)
    /\ LET o == onExportOutcome(exports[k])
       IN  /\ error' = IF o.error = "null" THEN error ELSE o.error
           /\ downloads' = IF o.download THEN downloads + 1 ELSE downloads
    /\ exportStatus' = "null"
    /\ exports' = SubSeq(exports, 1, k - 1) \o SubSeq(exports, k + 1, Len(exports))
    /\ UNCHANGED <<pending, assigned, reads, plays>>
    /\ UNCHANGED outsideApp

NextApp ==
    \/ \E f \in Library : ClickFile(f)
    \/ \E f \in Library : ReadSettles(f)
    \/ \E f \in Library : PlaySettles(f)
    \/ \E n \in Pads : ClickNote(n)
    \/ \E n \in Pads : ClickRemove(n)
    \/ resetProject
    \/ onExport
    \/ \E k \in 1..MaxInFlight : ExportSettles(k)

SpecApp == InitApp /\ [][NextApp]_vars

\* The fraction x of a second in microseconds (its denominator divides 1000000).
Micros(x) == x[1] * (1000000 \div x[2])

\* The sum of the header durations of the files in slots, in microseconds.
AssignedMicros(slots) ==
    LET N == Min(MaxPads, Len(ALLOWED_NOTES))
        S[k \in 0..N] ==
            IF k = 0 THEN 0
            ELSE IF slots[ALLOWED_NOTES[k]] # "none"
                 THEN S[k - 1] + Micros(HeaderInfo(slots[ALLOWED_NOTES[k]]).durationSec)
                 ELSE S[k - 1]
    IN  S[N]

\* The sum of the rendered durations of the files in slots, in microseconds.
RenderedMicros(slots) ==
    LET N == Min(MaxPads, Len(ALLOWED_NOTES))
        S[k \in 0..N] ==
            IF k = 0 THEN 0
            ELSE IF slots[ALLOWED_NOTES[k]] # "none"
                 THEN S[k - 1] + Micros(RenderedDuration(slots[ALLOWED_NOTES[k]]))
                 ELSE S[k - 1]
    IN  S[N]

\* C16: whatever files are selected and whatever pads are clicked, cleared or
\* reset, no step takes the header durations of the assigned samples (none at
\* the start) to a sum of more than 20.000001 s; and a click that calls
\* assignTo for a pending sample that would take the sum beyond that sets the
\* limit error and changes neither the assignments nor the pending sample.
C16_TotalWithinLimit ==
    [][/\ assigned' # assigned => AssignedMicros(assigned') <= 20000001
       /\ \A n \in Pads :
            (/\ pending # "none"
             /\ assigned[n] = "none"
             /\ reads' = reads /\ plays' = plays /\ exports' = exports
             /\ AssignedMicros(assigned) + Micros(HeaderInfo(pending).durationSec) > 20000001
             /\ ClickNote(n))
                => /\ error' = "limitExceeded"
                   /\ assigned' = assigned
                   /\ pending' = pending]_vars

C16_Witness ==
    /\ error = "limitExceeded" /\ pending = "b"
    /\ assigned[60] = "b" /\ assigned[62] = "none"

\* C17: a call of onExport with no sample assigned, or with more than
\* 20.000001 s assigned, starts no export and sets an error with the status
\* cleared; an export that returns a duration beyond 20.000001 s sets an error
\* and clears the status without a download; and a download only ever follows
\* an export that resolved with a duration within the limit.
C17_NoDownloadWhenBlocked ==
    [][/\ (/\ reads' = reads /\ plays' = plays /\ assigned' = assigned
           /\ assignedCount = 0 \/ AssignedMicros(assigned) > 20000001
           /\ onExport)
            => /\ error' = IF AssignedMicros(assigned) > 20000001
                           THEN "exportImpossibleDuration"
                           ELSE "exportImpossibleNoSamples"
               /\ exportStatus' = "null"
               /\ exports' = exports
               /\ downloads' = downloads
       /\ \A k \in 1..Len(exports) :
            (exports[k].ok /\ Micros(exports[k].durationSec) > 20000001 /\ ExportSettles(k))
                => /\ downloads' = downloads
                   /\ error' = "exportImpossibleFinalDuration"
                   /\ exportStatus' = "null"
       /\ downloads' # downloads
            => \E k \in 1..Len(exports) :
                  /\ exports[k].ok
                  /\ Micros(exports[k].durationSec) <= 20000001
                  /\ ExportSettles(k)]_vars

C17_Witness ==
    /\ error = "exportImpossibleFinalDuration" /\ exportStatus = "null"
    /\ downloads = 0 /\ exports = <<>>
    /\ assigned[60] = "a" /\ assigned[62] = "b"

\* C18: a click on a pad that holds a sample, while another sample is pending
\* and would fit the limit in its place, puts the pending sample on the pad.
C18_ClickReplacesAssigned ==
    [][\A n \in Pads :
          (/\ pending # "none"
           /\ assigned[n] # "none"
           /\ AssignedMicros(assigned) - Micros(HeaderInfo(assigned[n]).durationSec)
                 + Micros(HeaderInfo(pending).durationSec) <= 20000001
           /\ ClickNote(n))
              => assigned'[n] = pending]_vars

\* A pad that holds "b" was clicked while "a" was pending: "b" is played and
\* stays on the pad, "a" stays pending.
C18_Witness ==
    /\ pending = "a" /\ assigned[60] = "b" /\ plays = {"b"} /\ reads = {}
    /\ error = "null"



-----------------------------------------------------------------------------
(* buildAcDryRegions: skipped notes and the root note's place (SpecRegions). *)

\* The indices below i whose note came with a positive frame count.
KeptBefore(i) == {k \in 1..(i - 1) : FramesAt(frameLengths, k) > 0}

\* The frames of the notes below index i that were not skipped.
OffsetBefore(i) == SumSeq([k \in 1..(i - 1) |-> Max(0, FramesAt(frameLengths, k))])

\* C22: an index whose frame count is <= 0 or missing gives no region and adds
\* nothing to the running frame offset: there is one region per index with a
\* positive count, in index order, starting at the sum of the positive counts
\* before it; and its key range runs between the midpoints with the notes next
\* to it in the list handed over, skipped notes included.
C22_SkippedNotes ==
    (pc = "returned" /\ Len(notes) >= 1)
        => /\ Len(regions) = Cardinality(KeptBefore(Len(notes) + 1))
           /\ \A i \in 1..Len(notes) :
                 FramesAt(frameLengths, i) > 0
                    => regions[Cardinality(KeptBefore(i)) + 1] =
                         [sample_start |-> OffsetBefore(i),
                          sample_end |-> OffsetBefore(i) + frameLengths[i],
                          sample_lokey |->
                              IF i = 1 THEN 0 ELSE (notes[i - 1] + notes[i] + 1) \div 2,
                          sample_hikey |->
                              IF i = Len(notes) THEN 127
                              ELSE (notes[i] + notes[i + 1] + 1) \div 2,
                          sound_rootnote |-> notes[i]]

\* Note 64 has no frames and note 67 no frame count: the one region, for note
\* 60, still ends on key 62, the midpoint with the skipped 64.
C22_Witness ==
    /\ pc = "returned" /\ notes = <<60, 64, 67>> /\ frameLengths = <<2, 0>>
    /\ regions = <<[sample_start |-> 0, sample_end |-> 2, sample_lokey |-> 0,
                    sample_hikey |-> 62, sound_rootnote |-> 60]>>

\* C29: for ascending distinct notes, whatever the frame counts, every region
\* has 0 <= lokey <= rootnote <= hikey <= 127.
C29_RootInsideKeyRange ==
    (pc = "returned" /\ Distinct(notes))
        => \A j \in 1..Len(regions) :
              /\ 0 <= regions[j].sample_lokey
              /\ regions[j].sample_lokey <= regions[j].sound_rootnote
              /\ regions[j].sound_rootnote <= regions[j].sample_hikey
              /\ regions[j].sample_hikey <= 127

\* Both ends of the keyboard and two neighbours: the region of note 0 is 0..1,
\* the region of note 127 ends on 127.
C29_Witness ==
    /\ pc = "returned" /\ notes = <<0, 1, 127>> /\ Len(regions) = 3
    /\ regions[1].sample_lokey = 0 /\ regions[1].sample_hikey = 1
    /\ regions[3].sound_rootnote = 127 /\ regions[3].sample_hikey = 127


-----------------------------------------------------------------------------
(* readWavInfo: the chunk cursor and the bytes read (SpecParser).          *)

\* C23: a loop turn that goes on to the next chunk moves the cursor by 8 plus
\* the declared size rounded up to the next even number; on a data chunk it
\* sets dataBytes to the declared size, not rounded, and nothing else; on a
\* chunk that is neither 'fmt ' nor 'data' it changes none of the four fields.
C23_ChunkAdvance ==
    [][(ppc = "scan" /\ ppc' = "scan" /\ offset' # offset)
          => LET chunkId == SubSeq(view, offset + 1, offset + 4)
                 chunkSize == getUint32(view, offset + 4)
                 rounded == IF chunkSize % 2 = 0 THEN chunkSize ELSE chunkSize + 1
             IN  /\ offset' = offset + 8 + rounded
                 /\ chunkId = TagData =>
                        /\ dataBytes' = chunkSize
                        /\ UNCHANGED <<channels, sampleRate, bitsPerSample>>
                 /\ chunkId \notin {TagFmt, TagData} =>
                        UNCHANGED <<channels, sampleRate, bitsPerSample, dataBytes>>]_vars

\* A LIST chunk of 5 bytes and a data chunk of 3 bytes were passed: the cursor
\* stands at 12 + (8 + 6) + (8 + 4), dataBytes is 3, the fmt fields are unset.
C23_Witness ==
    /\ ppc = "scan" /\ offset = 38 /\ dataBytes = 3 /\ channels = 0
    /\ made.chunks[1].id = TagLIST /\ made.chunks[1].size = 5
    /\ made.chunks[2].id = TagData /\ made.chunks[2].size = 3

\* C28: every byte readWavInfo reads lies inside the buffer: the header checks
\* read bytes 0..3 and 8..11 of a buffer of 12 bytes or more, a loop turn reads
\* a chunk id and size only when 8 bytes remain at the cursor, and the fmt
\* fields (payload offsets 2..15) only of a chunk of declared size >= 16 that
\* ends within the buffer.
C28_ReadsInsideBuffer ==
    /\ ppc = "start" => HeaderReads(view) \subseteq 0..(Len(view) - 1)
    /\ ppc = "scan" =>
          LET reads_ == TurnReads(view, Locals)
          IN  /\ reads_ \subseteq 0..(Len(view) - 1)
              /\ reads_ # {} => offset + 8 <= Len(view)
              /\ (offset + 8 + 15) \in reads_ =>
                    /\ getUint32(view, offset + 4) >= 16
                    /\ offset + 8 + getUint32(view, offset + 4) <= Len(view)

\* The cursor stands on a 'fmt ' chunk that declares 16 bytes of which the
\* buffer holds 10: the turn reads the 8 bytes of its header and no field.
C28_Witness ==
    /\ ppc = "scan" /\ Len(made.chunks) = 1 /\ made.chunks[1].id = TagData
    /\ made.tail = TagFmt \o U32LE(16) \o SubSeq(FmtPayload(2, 44100, 16), 1, 10)
    /\ offset = Len(view) - 18
    /\ TurnReads(view, Locals) = offset..(offset + 7)

-----------------------------------------------------------------------------
(* SpecList: buildListChunkTnge on the regions of a buildAcDryRegions call. *)

\* The frame counts of the notes: none, one frame, one second at 22050 Hz.
ListFrames == {0, 1, 22050}

InitList ==
    /\ notes \in {s \in SeqsUpTo(NoteSet, MaxNotes) : Ascending(s)}
    /\ frameLengths \in {f \in SeqsUpTo(ListFrames, MaxNotes) : Len(f) = Len(notes)}
    /\ regions = <<>>
    /\ pc = "call"
    /\ items = <<>> /\ options = [sampleRate |-> 0, channels |-> 1] /\ itemsSorted = <<>>
    /\ idx = 0 /\ rendered = <<>> /\ totalFrames = 0 /\ built = <<>>
    /\ result = [ok |-> FALSE, error |-> "none"]
    /\ ParserIdle
    /\ AudioIdle
    /\ AppIdle
    /\ BrowseIdle
    /\ PlayerIdle
    /\ DecodeIdle

\* One call of buildListChunkTnge(regions), after the call that made the regions.
BuildList ==
    /\ pc = "returned"
    /\ built' = [list |-> buildListChunkTnge(regions)]
    /\ pc' = "listed"
    /\ UNCHANGED <<items, options, itemsSorted, idx, rendered, notes, frameLengths,
                   totalFrames, regions, result>>
    /\ UNCHANGED outsideExport

NextList == BuildRegions \/ BuildList

SpecList == InitList /\ [][NextList]_vars

\* A reader of JSON text, for the texts JSON.stringify writes (no white space,
\* no escapes in strings, integers only).  Each Read operator starts at
\* position p of the text t and gives what it read and the position after it:
\* a number as an integer, a string as [str], an array as [arr] and an object
\* as [obj], the sequence of its [key, val] members in the order written.
RECURSIVE QuoteAt(_, _)
QuoteAt(t, p) == IF p > Len(t) \/ t[p] = 34 THEN p ELSE QuoteAt(t, p + 1)

RECURSIVE ReadDigits(_, _, _)
ReadDigits(t, p, acc) ==
    IF p <= Len(t) /\ t[p] \in 48..57
    THEN ReadDigits(t, p + 1, 10 * acc + (t[p] - 48))
    ELSE [val |-> acc, next |-> p]

ReadNumber(t, p) ==
    IF t[p] = 45
    THEN LET r == ReadDigits(t, p + 1, 0)
         IN  [ok |-> r.next > p + 1, val |-> -r.val, next |-> r.next]
    ELSE LET r == ReadDigits(t, p, 0)
         IN  [ok |-> r.next > p, val |-> r.val, next |-> r.next]

RECURSIVE ReadValue(_, _)
RECURSIVE ReadMembers(_, _)
RECURSIVE ReadElements(_, _)

ReadValue(t, p) ==
    IF p > Len(t) THEN [ok |-> FALSE, val |-> 0, next |-> p]
    ELSE IF t[p] = 34
    THEN LET q == QuoteAt(t, p + 1)
         IN  [ok |-> q <= Len(t), val |-> [str |-> SubSeq(t, p + 1, q - 1)], next |-> q + 1]
    ELSE IF t[p] = 91
    THEN LET r == ReadElements(t, p + 1)
         IN  [ok |-> r.ok, val |-> [arr |-> r.val], next |-> r.next]
    ELSE IF t[p] = 123
    THEN LET r == ReadMembers(t, p + 1)
         IN  [ok |-> r.ok, val |-> [obj |-> r.val], next |-> r.next]
    ELSE ReadNumber(t, p)

\* The members of an object from p, the position after '{' or after a ','.
ReadMembers(t, p) ==
    IF p > Len(t) THEN [ok |-> FALSE, val |-> <<>>, next |-> p]
    ELSE IF t[p] = 125 THEN [ok |-> TRUE, val |-> <<>>, next |-> p + 1]
    ELSE LET q == QuoteAt(t, p + 1)
             v == ReadValue(t, q + 2)
             member == <<[key |-> SubSeq(t, p + 1, q - 1), val |-> v.val]>>
             wellFormed == t[p] = 34 /\ q < Len(t) /\ t[q + 1] = 58 /\ v.ok /\ v.next <= Len(t)
         IN  IF ~wellFormed THEN [ok |-> FALSE, val |-> <<>>, next |-> p]
             ELSE IF t[v.next] = 44
             THEN LET rest == ReadMembers(t, v.next + 1)
                  IN  [ok |-> rest.ok /\ rest.val # <<>>, val |-> member \o rest.val,
                       next |-> rest.next]
             ELSE [ok |-> t[v.next] = 125, val |-> member, next |-> v.next + 1]

\* The elements of an array from p, the position after '[' or after a ','.
ReadElements(t, p) ==
    IF p > Len(t) THEN [ok |-> FALSE, val |-> <<>>, next |-> p]
    ELSE IF t[p] = 93 THEN [ok |-> TRUE, val |-> <<>>, next |-> p + 1]
    ELSE LET v == ReadValue(t, p)
         IN  IF ~v.ok \/ v.next > Len(t) THEN [ok |-> FALSE, val |-> <<>>, next |-> p]
             ELSE IF t[v.next] = 44
             THEN LET rest == ReadElements(t, v.next + 1)
                  IN  [ok |-> rest.ok /\ rest.val # <<>>, val |-> <<v.val>> \o rest.val,
                       next |-> rest.next]
             ELSE [ok |-> t[v.next] = 93, val |-> <<v.val>>, next |-> v.next + 1]

\* The name inside a key as written: KeyStart is {"sample.start": and the
\* others are ,"name": .
NameIn(k) == SubSeq(k, 3, Len(k) - 2)

\* "regions"
NameRegions == <<114, 101, 103, 105, 111, 110, 115>>

\* C24: the LIST chunk is 'LIST', its size, 'INFO', 'TNGE', a length and the
\* JSON text, followed by nothing or by the one zero byte that makes the payload
\* even; the length is the length of the JSON text with its one trailing NUL; the
\* text before the NUL is one JSON object whose "regions" member is an array with
\* one object per region, in region order, holding that region's sample.start,
\* sample.end, sample.lokey, sample.hikey and sound.rootnote, and -1 as
\* sound.loopstart and sound.loopend.
C24_ListChunkJson ==
    pc = "listed" =>
        LET list == built.list
            jsonLen == getUint32(list, 16)
            text == SubSeq(list, 21, 20 + jsonLen - 1)
            top == ReadValue(text, 1)
            last == top.val.obj[Len(top.val.obj)]
            entries == last.val.arr
            keys == <<KeyStart, KeyEnd, KeyLokey, KeyHikey, KeyRootnote, KeyLoopstart, KeyLoopend>>
        IN  /\ readAscii4(list, 0) = TagLIST
            /\ readAscii4(list, 8) = TagINFO
            /\ readAscii4(list, 12) = TagTNGE
            /\ jsonLen >= 3
            /\ Len(list) \in {20 + jsonLen, 20 + jsonLen + 1}
            /\ Len(list) % 2 = 0
            /\ getUint32(list, 4) = Len(list) - 8
            /\ list[20 + jsonLen] = 0
            /\ list[Len(list)] = 0
            /\ \A q \in 1..Len(text) : text[q] # 0
            /\ text[1] = 123
            /\ top.ok /\ top.next = Len(text) + 1
            /\ last.key = NameRegions
            /\ Len(entries) = Len(regions)
            /\ \A j \in 1..Len(regions) :
                  /\ Len(entries[j].obj) = 7
                  /\ \A m \in 1..7 : entries[j].obj[m].key = NameIn(keys[m])
                  /\ [m \in 1..7 |-> entries[j].obj[m].val] =
                        <<regions[j].sample_start, regions[j].sample_end,
                          regions[j].sample_lokey, regions[j].sample_hikey,
                          regions[j].sound_rootnote, -1, -1>>

\* Two regions, with numbers of one, two, three and five digits, were written.
C24_Witness ==
    /\ pc = "listed" /\ notes = <<0, 1, 127>> /\ frameLengths = <<22050, 0, 1>>
    /\ Len(regions) = 2 /\ regions[2].sample_start = 22050 /\ regions[2].sample_end = 22051
    /\ regions[2].sample_lokey = 64 /\ regions[2].sample_hikey = 127
    /\ getUint32(built.list, 16) = Len(TngeJson(regions))

-----------------------------------------------------------------------------
(* SpecBoth: the two encoders called with the same files and options.      *)

\* exportConcatenatedWavPcm16 as a function of its arguments, for files that all
\* decode.
exportConcatenatedWavPcm16(filesInOrder, opts) ==
    LET bufs == [j \in 1..Len(filesInOrder) |-> Render(filesInOrder[j], opts)]
        frames == SumSeq([j \in 1..Len(bufs) |-> bufs[j].length])
        pcmBytes == Int16Bytes(KitPcm(bufs, opts))
    IN  [ok |-> TRUE,
         wavBytes |-> WavHeader44(opts, Len(pcmBytes)) \o pcmBytes,
         durationSec |-> Frac(frames, opts.sampleRate)]

\* items.map((it) => it.file)
FilesOf(its) == [j \in 1..Len(its) |-> its[j].file]

InitBoth ==
    /\ items \in SeqsUpTo([note : ExportNotes, file : FileNames], MaxItems)
    /\ options \in ExportOptions
    /\ itemsSorted = <<>> /\ idx = 0 /\ rendered = <<>> /\ notes = <<>> /\ frameLengths = <<>>
    /\ totalFrames = 0 /\ regions = <<>> /\ built = <<>>
    /\ result = [ok |-> FALSE, error |-> "none"]
    /\ pc = "both"
    /\ ParserIdle
    /\ AudioIdle
    /\ AppIdle
    /\ BrowseIdle
    /\ PlayerIdle
    /\ DecodeIdle

\* Both calls have settled: result holds what each of them gave.  A file that
\* does not decode rejects either call.
CallBoth ==
    /\ pc = "both"
    /\ result' =
          IF \E j \in 1..Len(items) : ~decodeToAudioBuffer(items[j].file).ok
          THEN [kit |-> [ok |-> FALSE, error |-> "decode"],
                flat |-> [ok |-> FALSE, error |-> "decode"]]
          ELSE [kit |-> exportAcDryKitWavPcm16(items, options),
                flat |-> exportConcatenatedWavPcm16(FilesOf(items), options)]
    /\ pc' = "compared"
    /\ UNCHANGED <<items, options, itemsSorted, idx, rendered, notes, frameLengths,
                   totalFrames, regions, built>>
    /\ UNCHANGED outsideExport

NextBoth == CallBoth

SpecBoth == InitBoth /\ [][NextBoth]_vars

\* The payload of the data chunk of a kit file: the chunks are fmt (24 bytes),
\* LIST, smpl (44 bytes) and data.
KitDataPayload(w) ==
    LET listAt == 12 + 24
        smplAt == listAt + 8 + getUint32(w, listAt + 4)
        dataAt == smplAt + 44
    IN  SubSeq(w, dataAt + 8 + 1, dataAt + 8 + getUint32(w, dataAt + 4))

\* The payload of the data chunk of a flat file: it follows the 44-byte header.
FlatDataPayload(w) == SubSeq(w, 44 + 1, 44 + getUint32(w, 40))

\* C30: for items in ascending note order whose files all render to at least
\* one frame, the kit and the flat file hold the same data payload, which
\* reaches to the end of either file, and both calls report the same duration.
C30_SamePayload ==
    (/\ pc = "compared"
     /\ Ascending(NotesOf(items))
     /\ \A j \in 1..Len(items) :
           /\ decodeToAudioBuffer(items[j].file).ok
           /\ Render(items[j].file, options).length > 0)
        => /\ result.kit.ok /\ result.flat.ok
           /\ KitDataPayload(result.kit.wavBytes) = FlatDataPayload(result.flat.wavBytes)
           /\ Len(FlatDataPayload(result.flat.wavBytes)) = Len(result.flat.wavBytes) - 44
           /\ Len(FlatDataPayload(result.flat.wavBytes)) =
                 SumSeq([j \in 1..Len(items) |-> Render(items[j].file, options).length])
                    * options.channels * 2
           /\ result.kit.durationSec = result.flat.durationSec

\* Three different renderings in ascending note order (two of them on the same
\* note), one of a file without frames that resampling stretches to one frame.
C30_Witness ==
    /\ pc = "compared" /\ NotesOf(items) = <<60, 64, 64>>
    /\ FilesOf(items) = <<"stereo", "hi", "empty">>
    /\ options = [sampleRate |-> 44100, channels |-> 2]
    /\ result.kit.ok /\ result.kit.durationSec = Frac(4 + 4 + 1, 44100)
    /\ Len(FlatDataPayload(result.flat.wavBytes)) = 36

-----------------------------------------------------------------------------
(* SpecBrowse: clicks on files of the browser, each onClickBrowserFile call *)
(* kept apart: the calls whose readWavInfo is in flight, in click order.   *)

InitBrowse ==
    /\ pending = "none"
    /\ assigned = [n \in Pads |-> "none"]
    /\ error = "null"
    /\ exportStatus = "null"
    /\ reads = {} /\ plays = {} /\ exports = <<>> /\ downloads = 0
    /\ clickOrder = <<>>
    /\ lastClicked = "none"
    /\ ParserIdle
    /\ ExportIdle
    /\ AudioIdle
    /\ PlayerIdle
    /\ DecodeIdle

\* Lines 736-741: a click on file f; the call runs up to `await readWavInfo`.
onClickBrowserFile(f) ==
    /\ Len(clickOrder) + Cardinality(plays) < MaxInFlight
    /\ error' = "null"
    /\ clickOrder' = Append(clickOrder, f)
    /\ lastClicked' = f
    /\ UNCHANGED <<pending, assigned, exportStatus, reads, plays, exports, downloads>>
    /\ UNCHANGED outsideBrowse

\* Lines 741-746 and 666-672: the readWavInfo of the i-th call in flight settled;
\* the calls settle in any order, whatever the order of the clicks.
ReadWavInfoSettles(i) ==
    /\ i \in 1..Len(clickOrder)
    /\ clickOrder' = SubSeq(clickOrder, 1, i - 1) \o SubSeq(clickOrder, i + 1, Len(clickOrder))
    /\ IF HeaderInfo(clickOrder[i]).ok
       THEN /\ pending' = clickOrder[i]
            /\ error' = "null"
            /\ plays' = plays \cup {clickOrder[i]}
       ELSE /\ error' = HeaderInfo(clickOrder[i]).error
            /\ UNCHANGED <<pending, plays>>
    /\ UNCHANGED <<assigned, exportStatus, reads, exports, downloads, lastClicked>>
    /\ UNCHANGED outsideBrowse

NextBrowse ==
    \/ \E f \in Library : onClickBrowserFile(f)
    \/ \E i \in 1..MaxInFlight : ReadWavInfoSettles(i)
    \/ \E f \in Library : PlaySettles(f)

SpecBrowse == InitBrowse /\ [][NextBrowse]_vars

\* C27 as stated: once every header read has completed, the pending sample is
\* the file clicked last (when its header could be read).
C27_LastClickedIsPending ==
    (clickOrder = <<>> /\ lastClicked # "none" /\ HeaderInfo(lastClicked).ok)
        => pending = lastClicked

\* "a" was clicked, then "b"; both reads have completed and "a" is pending.
C27_Witness ==
    /\ clickOrder = <<>> /\ lastClicked = "b" /\ pending = "a" /\ error = "null"

-----------------------------------------------------------------------------
(* SpecPlayer: player.ts.  playWavBlob is called at any time, on a blob    *)
(* that decodes ("wav") or not ("bad"); its three awaits settle in any     *)
(* order across calls; stopPlayback is called at any time; a playing       *)
(* source plays to its end at any time, and the 'ended' event of a source  *)
(* that no longer plays is dispatched some time later.                     *)

MaxPlayCalls == 2       \* playWavBlob calls in flight at once
MaxSources == 3         \* sources created in a run

Blobs == {"wav", "bad"}

\* A variant of stopPlayback that drops the reference without stopping the source.
stopPlayback_KeepsPlaying == sources

\* Lines 29-39: the sources once stopPlayback has run (currentSource is then
\* null).  stop() on a source that no longer plays changes nothing.
stopPlayback ==
    IF currentSource = 0 THEN sources
    ELSE [sources EXCEPT ![currentSource] = IF @ = "playing" THEN "stopped" ELSE @]

\* A variant of the handler that clears the reference whatever it refers to.
onended_Unguarded(src) == 0

\* Lines 24-26: currentSource once the onended handler of src has run.
onended(src) == IF currentSource = src THEN 0 ELSE currentSource

InitPlayer ==
    /\ audioContext = "null"
    /\ currentSource = 0
    /\ sources = <<>>
    /\ playCalls = <<>>
    /\ ParserIdle
    /\ ExportIdle
    /\ AudioIdle
    /\ AppIdle
    /\ BrowseIdle
    /\ DecodeIdle

\* The calls in flight without the i-th.
WithoutCall(i) == SubSeq(playCalls, 1, i - 1) \o SubSeq(playCalls, i + 1, Len(playCalls))

\* Lines 4-13: a call of playWavBlob(blob) up to `await ctx.resume()`; getCtx
\* creates the context on the first call.
playWavBlob(blob) ==
    /\ Len(playCalls) < MaxPlayCalls
    /\ Len(sources) + Len(playCalls) < MaxSources
    /\ audioContext' = "ctx"
    /\ playCalls' = Append(playCalls, [blob |-> blob, at |-> "resume"])
    /\ UNCHANGED <<currentSource, sources>>
    /\ UNCHANGED outsidePlayer

\* Lines 13-15: ctx.resume() settled; the call waits for blob.arrayBuffer().
ResumeSettles(i) ==
    /\ i \in 1..Len(playCalls)
    /\ playCalls[i].at = "resume"
    /\ playCalls' = [playCalls EXCEPT ![i].at = "read"]
    /\ UNCHANGED <<audioContext, currentSource, sources>>
    /\ UNCHANGED outsidePlayer

\* Lines 15-16: blob.arrayBuffer() settled; the call waits for decodeAudioData.
ArrayBufferSettles(i) ==
    /\ i \in 1..Len(playCalls)
    /\ playCalls[i].at = "read"
    /\ playCalls' = [playCalls EXCEPT ![i].at = "decode"]
    /\ UNCHANGED <<audioContext, currentSource, sources>>
    /\ UNCHANGED outsidePlayer

\* Line 16: decodeAudioData rejected; the call throws.
DecodeRejects(i) ==
    /\ i \in 1..Len(playCalls)
    /\ playCalls[i].at = "decode"
    /\ playCalls[i].blob = "bad"
    /\ playCalls' = WithoutCall(i)
    /\ UNCHANGED <<audioContext, currentSource, sources>>
    /\ UNCHANGED outsidePlayer

\* Lines 16-26: decodeAudioData resolved; the rest of the call runs in one go:
\* stopPlayback(), a new source is started and currentSource refers to it.
DecodeResolves(i) ==
    /\ i \in 1..Len(playCalls)
    /\ playCalls[i].at = "decode"
    /\ playCalls[i].blob = "wav"
    /\ sources' = Append(stopPlayback, "playing")
    /\ currentSource' = Len(sources) + 1
    /\ playCalls' = WithoutCall(i)
    /\ UNCHANGED audioContext
    /\ UNCHANGED outsidePlayer

\* Lines 29-39: a call of stopPlayback from outside (onPlay, resetProject).
StopPlaybackCall ==
    /\ sources' = stopPlayback
    /\ currentSource' = 0
    /\ UNCHANGED <<audioContext, playCalls>>
    /\ UNCHANGED outsidePlayer

\* The source numbered s plays to the end of its buffer.
SourceRunsOut(s) ==
    /\ s \in 1..Len(sources)
    /\ sources[s] = "playing"
    /\ sources' = [sources EXCEPT ![s] = "finished"]
    /\ UNCHANGED <<audioContext, currentSource, playCalls>>
    /\ UNCHANGED outsidePlayer

\* Lines 24-26: the 'ended' event of the source numbered s is dispatched and its
\* handler runs.
EndedEvent(s) ==
    /\ s \in 1..Len(sources)
    /\ sources[s] \in {"stopped", "finished"}
    /\ sources' = [sources EXCEPT ![s] = IF @ = "stopped" THEN "endedStopped"
                                                           ELSE "endedFinished"]
    /\ currentSource' = onended(s)
    /\ UNCHANGED <<audioContext, playCalls>>
    /\ UNCHANGED outsidePlayer

NextPlayer ==
    \/ \E b \in Blobs : playWavBlob(b)
    \/ \E i \in 1..MaxPlayCalls : ResumeSettles(i)
    \/ \E i \in 1..MaxPlayCalls : ArrayBufferSettles(i)
    \/ \E i \in 1..MaxPlayCalls : DecodeRejects(i)
    \/ \E i \in 1..MaxPlayCalls : DecodeResolves(i)
    \/ StopPlaybackCall
    \/ \E s \in 1..MaxSources : SourceRunsOut(s)
    \/ \E s \in 1..MaxSources : EndedEvent(s)

SpecPlayer == InitPlayer /\ [][NextPlayer]_vars

\* The sources that are playing: started, and neither stopped nor at their end.
Playing == {s \in 1..Len(sources) : sources[s] = "playing"}

\* C25: under every interleaving of playWavBlob and stopPlayback calls, at most
\* one source is playing, and currentSource refers to the one that is.
C25_AtMostOnePlaying ==
    /\ Cardinality(Playing) <= 1
    /\ \A s \in Playing : currentSource = s

\* Two calls overlapped: the second started its source, which stopped the
\* first one, while a third call still waits for its decode.
C25_Witness ==
    /\ sources = <<"stopped", "playing">> /\ currentSource = 2
    /\ Len(playCalls) = 1 /\ playCalls[1].at = "decode"

\* C26: the 'ended' event of a source that currentSource does not refer to leaves
\* currentSource as it is, so that a playing source is still the one
\* stopPlayback would stop.
C26_EndedKeepsLaterSource ==
    [][\A s \in 1..Len(sources) :
          (currentSource # s /\ EndedEvent(s))
              => /\ currentSource' = currentSource
                 /\ \A t \in 1..Len(sources) : sources'[t] = "playing" => currentSource' = t]_vars

\* The first source was stopped by the call that started the second; its
\* 'ended' event has been dispatched, and the second still plays and is the
\* one currentSource refers to.
C26_Witness ==
    /\ sources = <<"endedStopped", "playing">> /\ currentSource = 2

-----------------------------------------------------------------------------
(* SpecDecode: the decode loop of an export (lines 423-424 and 477-478),   *)
(* one decodeToAudioBuffer call per file, with the AudioContext each call  *)
(* creates.  ctx.close() returns a promise that the code does not await    *)
(* (`void ctx.close()`): a context is "closing" from the call of close()   *)
(* until that promise settles, at a time of its own.                       *)

\* The files of an export: those of FileNames, and "gone", a file whose bytes
\* cannot be read (file.arrayBuffer() rejects).
DecodeFiles == FileNames \cup {"gone"}

InitDecode ==
    /\ items \in SeqsUpTo(DecodeFiles, MaxItems)
    /\ options = [sampleRate |-> 44100, channels |-> 2]
    /\ itemsSorted = <<>> /\ idx = 1 /\ rendered = <<>> /\ notes = <<>> /\ frameLengths = <<>>
    /\ totalFrames = 0 /\ regions = <<>> /\ built = <<>>
    /\ result = [ok |-> FALSE, error |-> "none"]
    /\ pc = "open"
    /\ contexts = <<>>
    /\ ParserIdle
    /\ AudioIdle
    /\ AppIdle
    /\ BrowseIdle
    /\ PlayerIdle

\* Line 177: close() is called on the context of the running call, the last
\* one created.
CloseContext == [contexts EXCEPT ![Len(contexts)] = "closing"]

exportUntouched == <<items, options, itemsSorted, rendered, notes, frameLengths,
                     totalFrames, regions, built>>

\* Lines 171-173: decodeToAudioBuffer(items[idx]) is called: new AudioContext(),
\* then the call waits for file.arrayBuffer().
DecodeCall ==
    /\ pc = "open"
    /\ idx <= Len(items)
    /\ contexts' = Append(contexts, "running")
    /\ pc' = "reading"
    /\ UNCHANGED <<idx, result>>
    /\ UNCHANGED exportUntouched
    /\ UNCHANGED outsideDecode

\* Lines 173-174: the bytes were read; the call waits for decodeAudioData.
ArrayBufferResolves ==
    /\ pc = "reading"
    /\ items[idx] # "gone"
    /\ pc' = "decoding"
    /\ UNCHANGED <<idx, result, contexts>>
    /\ UNCHANGED exportUntouched
    /\ UNCHANGED outsideDecode

\* Lines 173-178: the bytes cannot be read; the finally block runs and the call,
\* and with it the export, rejects.
ArrayBufferRejects ==
    /\ pc = "reading"
    /\ items[idx] = "gone"
    /\ contexts' = CloseContext
    /\ result' = [ok |-> FALSE, error |-> "read"]
    /\ pc' = "rejected"
    /\ UNCHANGED idx
    /\ UNCHANGED exportUntouched
    /\ UNCHANGED outsideDecode

\* Lines 174-178: the file was decoded; the finally block runs, the call
\* returns and the loop goes on to the next file.
DecodeAudioResolves ==
    /\ pc = "decoding"
    /\ decodeToAudioBuffer(items[idx]).ok
    /\ contexts' = CloseContext
    /\ idx' = idx + 1
    /\ pc' = "open"
    /\ UNCHANGED result
    /\ UNCHANGED exportUntouched
    /\ UNCHANGED outsideDecode

\* A variant without the finally block: a failed decode leaves the context as
\* it is.
DecodeAudioRejects_NoFinally ==
    /\ pc = "decoding"
    /\ ~decodeToAudioBuffer(items[idx]).ok
    /\ result' = [ok |-> FALSE, error |-> decodeToAudioBuffer(items[idx]).error]
    /\ pc' = "rejected"
    /\ UNCHANGED <<idx, contexts>>
    /\ UNCHANGED exportUntouched
    /\ UNCHANGED outsideDecode

\* Lines 174-178: the decoder rejects the file; the finally block runs and the
\* call, and with it the export, rejects.
DecodeAudioRejects ==
    /\ pc = "decoding"
    /\ ~decodeToAudioBuffer(items[idx]).ok
    /\ contexts' = CloseContext
    /\ result' = [ok |-> FALSE, error |-> decodeToAudioBuffer(items[idx]).error]
    /\ pc' = "rejected"
    /\ UNCHANGED idx
    /\ UNCHANGED exportUntouched
    /\ UNCHANGED outsideDecode

\* Every file was decoded: the export goes on to assemble the file and returns.
ExportReturns ==
    /\ pc = "open"
    /\ idx > Len(items)
    /\ result' = [ok |-> TRUE]
    /\ pc' = "returned"
    /\ UNCHANGED <<idx, contexts>>
    /\ UNCHANGED exportUntouched
    /\ UNCHANGED outsideDecode

\* The promise of a close() call settles: the context numbered c is closed.
ContextCloses(c) ==
    /\ c \in 1..Len(contexts)
    /\ contexts[c] = "closing"
    /\ contexts' = [contexts EXCEPT ![c] = "closed"]
    /\ UNCHANGED <<idx, result, pc>>
    /\ UNCHANGED exportUntouched
    /\ UNCHANGED outsideDecode

NextDecode ==
    \/ DecodeCall
    \/ ArrayBufferResolves
    \/ ArrayBufferRejects
    \/ DecodeAudioResolves
    \/ DecodeAudioRejects
    \/ ExportReturns
    \/ \E c \in 1..MaxItems : ContextCloses(c)

SpecDecode == InitDecode /\ [][NextDecode]_vars

\* C21 as stated: at most one context created by the export is not closed at
\* any time, and none is left not closed once the export has returned or failed.
C21_AtMostOneOpen ==
    /\ Cardinality({c \in 1..Len(contexts) : contexts[c] # "closed"}) <= 1
    /\ pc \in {"returned", "rejected"} =>
          \A c \in 1..Len(contexts) : contexts[c] = "closed"

\* C21 amended: every decodeToAudioBuffer call creates one context and has
\* called close() on it when it exits, whether it returns, fails to read the
\* bytes or fails to decode them: while a call runs its context is the only
\* one on which close() was not called, and between calls and once the export
\* has returned or failed there is none.  The contexts of earlier calls are
\* closed or still closing.
C21_CloseCalledOnEveryExit ==
    /\ Cardinality({c \in 1..Len(contexts) : contexts[c] = "running"}) <= 1
    /\ pc \in {"reading", "decoding"} =>
          /\ Len(contexts) = idx
          /\ contexts[idx] = "running"
    /\ pc \in {"open", "returned"} =>
          /\ Len(contexts) = idx - 1
          /\ \A c \in 1..Len(contexts) : contexts[c] \in {"closing", "closed"}
    /\ pc = "rejected" =>
          /\ Len(contexts) = idx
          /\ \A c \in 1..Len(contexts) : contexts[c] \in {"closing", "closed"}

\* The second call failed to read its file and the export has failed: close()
\* was called on both contexts, and the second is not closed yet.
C21_Witness ==
    /\ pc = "rejected" /\ result.error = "read" /\ idx = 2
    /\ contexts = <<"closed", "closing">>

=============================================================================
